---------------------------- MODULE Spec2Model ----------------------------
(***************************************************************************)
(* Model of the ODE chapter of CompPhysics (Chapter_6/ODEs.py): the Euler  *)
(* and rk4 steppers, the derivative functions, and the notebook cells that *)
(* drive them.                                                             *)
(*                                                                         *)
(* The notebook computes with numpy float64 arrays.  A float64 is modelled *)
(* bit-exactly as sign * m * 2^e with a 53-bit significand m, and every    *)
(* arithmetic operation rounds to nearest, ties to even, as IEEE-754       *)
(* binary64 does.  TLC integers are 32 bits wide, so the significand is    *)
(* kept as four 14-bit limbs, lowest first.  Subnormals, infinities and    *)
(* NaN are outside the value ranges explored here.                         *)
(***************************************************************************)
EXTENDS Integers, Sequences, FiniteSets, TLC

(***************************************************************************)
(* Natural numbers wider than a TLC integer: sequences of limbs, lowest    *)
(* first, each below Base; high zero limbs are allowed.  Carries and       *)
(* borrows are found by looking back for the limb that generates them.     *)
(***************************************************************************)
LimbBits == 14
Base == 2^LimbBits

Max(a, b) == IF a > b THEN a ELSE b
Min(a, b) == IF a < b THEN a ELSE b

Limb(a, i) == IF i >= 1 /\ i <= Len(a) THEN a[i] ELSE 0

\* a function written [i \in 1..n |-> e], as the tuple of its values
Tuple(f) == f \o <<>>

Take(a, n) == Tuple([i \in 1..n |-> Limb(a, i)])

WIsZero(a) == \A i \in 1..Len(a) : a[i] = 0

\* columns c[i] <= 2*Base - 2, so every carry is 0 or 1: a carry enters limb
\* i when a limb below is at least Base and every limb between passes it on
Ripple(c) ==
    Tuple([i \in 1..(Len(c) + 1) |->
        (Limb(c, i)
         + (IF \E n \in 1..(i - 1) :
                  c[n] >= Base /\ \A l \in (n + 1)..(i - 1) : c[l] >= Base - 1
            THEN 1 ELSE 0)) % Base])

\* one pass of moving each column's excess over Base one limb up
Pass(c) ==
    Tuple([i \in 1..(Len(c) + 1) |-> (Limb(c, i) % Base) + (Limb(c, i - 1) \div Base)])

\* the limbs of sum of c[i] * Base^(i-1), for columns below 2^31
Normalize(c) == Ripple(Pass(Pass(c)))

WAdd(a, b) ==
    Ripple(Tuple([i \in 1..Max(Len(a), Len(b)) |-> Limb(a, i) + Limb(b, i)]))

\* differences d[i] of limbs, each above -Base: a borrow enters limb i when a
\* limb below is short and every limb between has nothing to give
Borrow(d) ==
    Tuple([i \in 1..Len(d) |->
        (d[i]
         - (IF \E n \in 1..(i - 1) :
                  d[n] < 0 /\ \A l \in (n + 1)..(i - 1) : d[l] <= 0
            THEN 1 ELSE 0)) % Base])

\* a - b for a >= b
WSub(a, b) ==
    Borrow(Tuple([i \in 1..Max(Len(a), Len(b)) |-> Limb(a, i) - Limb(b, i)]))

\* a < b: the highest limb that differs is smaller in a
WLess(a, b) ==
    \E i \in 1..Max(Len(a), Len(b)) :
        /\ Limb(a, i) < Limb(b, i)
        /\ \A l \in (i + 1)..Max(Len(a), Len(b)) : Limb(a, l) = Limb(b, l)

\* -1, 0, 1 as a < b, a = b, a > b
WCmp(a, b) ==
    IF WLess(a, b) THEN -1
    ELSE IF \A i \in 1..Max(Len(a), Len(b)) : Limb(a, i) = Limb(b, i) THEN 0
    ELSE 1

\* a * b for a of at most four limbs
WMul(a, b) ==
    Normalize(Tuple([n \in 1..(Len(a) + Len(b)) |->
                  Limb(a, 1) * Limb(b, n) + Limb(a, 2) * Limb(b, n - 1)
                  + Limb(a, 3) * Limb(b, n - 2) + Limb(a, 4) * Limb(b, n - 3)]))

\* a * c for 0 <= c < Base: the columns are below Base^2, and one pass
\* leaves them below 2*Base - 1
WMulSmall(a, c) == Ripple(Pass(Tuple([i \in 1..Len(a) |-> a[i] * c])))

\* a * 2^n
WShl(a, n) ==
    Tuple([i \in 1..(Len(a) + (n \div LimbBits) + 1) |->
        ((Limb(a, i - (n \div LimbBits)) * 2^(n % LimbBits)) % Base)
        + ((Limb(a, i - (n \div LimbBits) - 1) * 2^(n % LimbBits)) \div Base)])

\* floor(a / 2^n)
WShr(a, n) ==
    Tuple([i \in 1..Len(a) |->
        (Limb(a, i + (n \div LimbBits)) \div 2^(n % LimbBits))
        + ((Limb(a, i + (n \div LimbBits) + 1) % 2^(n % LimbBits))
           * 2^(LimbBits - (n % LimbBits)))])

\* the highest nonzero limb of a # 0
TopLimb(a) ==
    CHOOSE i \in 1..Len(a) : a[i] # 0 /\ \A l \in (i + 1)..Len(a) : a[l] = 0

\* number of bits of a
WBitLen(a) ==
    IF WIsZero(a) THEN 0
    ELSE (TopLimb(a) - 1) * LimbBits
         + Cardinality({b \in 0..(LimbBits - 1) : 2^b <= a[TopLimb(a)]})

\* bit i of a, i = 0 the lowest
WBit(a, i) == (Limb(a, i \div LimbBits + 1) \div 2^(i % LimbBits)) % 2

\* the low n bits of a are all zero
WLowZero(a, n) ==
    \A i \in 1..Len(a) :
        IF i * LimbBits <= n THEN a[i] = 0
        ELSE IF (i - 1) * LimbBits >= n THEN TRUE
        ELSE a[i] % 2^(n - (i - 1) * LimbBits) = 0

(***************************************************************************)
(* float64: [s |-> 1 or -1, m |-> significand, e |-> exponent], the value  *)
(* s * m * 2^e, with 2^52 <= m < 2^53 in four limbs, or m = 0 for zero.    *)
(***************************************************************************)
Precision == 53
MLimbs == 4

FZero == [s |-> 1, m |-> Take(<<>>, MLimbs), e |-> 0]

IsZero(x) == WIsZero(x.m)

\* the bits of w cut off below bit sh are more than half a unit of bit sh,
\* or exactly half and bit sh is odd
RoundsUp(w, sh, sticky) ==
    /\ WBit(w, sh - 1) = 1
    /\ \/ ~WLowZero(w, sh - 1)
       \/ sticky
       \/ WBit(w, sh) = 1

\* s * q * 2^e for q <= 2^Precision: rounding up may have carried into one
\* more bit
Renormalize(s, q, e) ==
    IF WBit(q, Precision) = 1
    THEN [s |-> s, m |-> Take(WShr(q, 1), MLimbs), e |-> e + 1]
    ELSE [s |-> s, m |-> Take(q, MLimbs), e |-> e]

\* Round, for w of L bits
RoundBits(s, w, e, sticky, L) ==
    IF L = 0 THEN FZero
    ELSE IF L <= Precision
    THEN [s |-> s, m |-> Take(WShl(w, Precision - L), MLimbs), e |-> e - (Precision - L)]
    ELSE Renormalize(s,
                     IF RoundsUp(w, L - Precision, sticky)
                     THEN WAdd(WShr(w, L - Precision), <<1>>)
                     ELSE WShr(w, L - Precision),
                     e + (L - Precision))

\* s * w * 2^e (plus a positive amount below one unit of w when sticky),
\* rounded to nearest, ties to even
Round(s, w, e, sticky) == RoundBits(s, w, e, sticky, WBitLen(w))

\* float(n) of a Python int, |n| < 2^28
FromInt(n) ==
    Round(IF n < 0 THEN -1 ELSE 1,
          <<(IF n < 0 THEN -n ELSE n) % Base, (IF n < 0 THEN -n ELSE n) \div Base>>,
          0, FALSE)

FNeg(x) == IF IsZero(x) THEN x ELSE [x EXCEPT !.s = -x.s]

\* sx*mx*2^e + sy*my*2^e, rounded, where c compares mx to my
AddAligned(sx, mx, sy, my, e, c) ==
    Round(IF sx = sy \/ c > 0 THEN sx ELSE IF c < 0 THEN sy ELSE 1,
          IF sx = sy THEN WAdd(mx, my)
          ELSE IF c > 0 THEN WSub(mx, my)
          ELSE WSub(my, mx),
          e, FALSE)

\* sx*mx*2^ex + sy*my*2^ey for ex >= ey
AddShifted(sx, mx, ex, sy, my, ey) ==
    AddAligned(sx, WShl(mx, ex - ey), sy, my, ey, WCmp(WShl(mx, ex - ey), my))

\* x + y.  An operand more than 2^60 times smaller than the other is below
\* a quarter of the other's last place and leaves it unchanged.
FAdd(x, y) ==
    IF IsZero(x) THEN y
    ELSE IF IsZero(y) THEN x
    ELSE IF x.e - y.e >= 60 THEN x
    ELSE IF y.e - x.e >= 60 THEN y
    ELSE IF x.e >= y.e THEN AddShifted(x.s, x.m, x.e, y.s, y.m, y.e)
    ELSE AddShifted(y.s, y.m, y.e, x.s, x.m, x.e)

FSub(x, y) == FAdd(x, FNeg(y))

FMul(x, y) ==
    IF IsZero(x) \/ IsZero(y) THEN FZero
    ELSE Round(x.s * y.s, WMul(x.m, y.m), x.e + y.e, FALSE)

\* the largest of qhat, qhat - 1, qhat - 2 whose product with d is at most r5
Digit(qhat, r5, d) ==
    IF WCmp(WMulSmall(d, qhat), r5) <= 0 THEN qhat
    ELSE IF WCmp(WMulSmall(d, qhat - 1), r5) <= 0 THEN qhat - 1
    ELSE qhat - 2

\* the digit q and the remainder r5 - q*d
DigitRem(q, r5, d) == <<q, Take(WSub(r5, WMulSmall(d, q)), MLimbs)>>

\* One digit of long division (Knuth's algorithm D) for a four-limb divisor
\* d whose top limb is at least Base/2 and a five-limb r5 < d*Base: the
\* digit floor(r5 / d) and the remainder.  The estimate from the top limbs
\* is the digit or exceeds it by at most 2.
DivDigit(r5, d) ==
    DigitRem(Digit(Min(Base - 1, (r5[5] * Base + r5[4]) \div d[4]), r5, d), r5, d)

\* n more digits of the quotient q (lowest limb first) with remainder r by
\* d: the quotient and the last remainder.  Once a remainder is 0 the
\* division is exact and the digits left are 0.
RECURSIVE LongDiv(_, _, _, _)
LongDivNext(q, s, d, n) ==
    IF WIsZero(s[2]) THEN <<Take(<<>>, n - 1) \o <<s[1]>> \o q, s[2]>>
    ELSE LongDiv(<<s[1]>> \o q, s[2], d, n - 1)
LongDiv(q, r, d, n) ==
    IF n = 0 THEN <<q, r>>
    ELSE LongDivNext(q, DivDigit(<<0>> \o Take(r, MLimbs), d), d, n)

\* s * (quotient qr[1], and a sticky bit for a remainder qr[2] # 0) * 2^e
RoundQuotient(s, qr, e) == Round(s, qr[1], e, ~WIsZero(qr[2]))

\* s * floor(n * Base^4 / d) * 2^e for four-limb n and d with their top bits
\* set: one leading bit, then four limbs
Quotient(s, n, d, e) ==
    RoundQuotient(s,
                  LongDiv(<<IF WLess(n, d) THEN 0 ELSE 1>>,
                          IF WLess(n, d) THEN n ELSE Take(WSub(n, d), MLimbs),
                          d, MLimbs),
                  e)

\* x / y for y # 0
FDiv(x, y) ==
    IF IsZero(x) THEN FZero
    ELSE Quotient(x.s * y.s,
                  Take(WShl(x.m, MLimbs * LimbBits - Precision), MLimbs),
                  Take(WShl(y.m, MLimbs * LimbBits - Precision), MLimbs),
                  x.e - y.e - MLimbs * LimbBits)

\* -1, 0, 1 as x < 0, x = 0, x > 0
FSign(x) == IF IsZero(x) THEN 0 ELSE x.s

\* -1, 0, 1 as x < y, x = y, x > y
FCmp(x, y) == FSign(FSub(x, y))

FLt(x, y) == FCmp(x, y) < 0
FLe(x, y) == FCmp(x, y) <= 0
FGt(x, y) == FCmp(x, y) > 0

\* the float64 of the decimal literal n/d (n, d small integers): the literal
\* and the correctly rounded quotient are both the double nearest to n/d
Lit(n, d) == FDiv(FromInt(n), FromInt(d))

\* the integer w, below 2^28
WToInt(w) == Limb(w, 1) + Base * Limb(w, 2)

\* math.ceil of a float64 of magnitude below 2^28 (so that x.e < 0), as an
\* integer
FCeil(x) ==
    IF IsZero(x) THEN 0
    ELSE IF x.s > 0 /\ ~WLowZero(x.m, -x.e) THEN WToInt(WShr(x.m, -x.e)) + 1
    ELSE x.s * WToInt(WShr(x.m, -x.e))

\* 2^e
Pow2(e) == [FromInt(1) EXCEPT !.e = @ + e]
(***************************************************************************)
(* numpy arrays and Python exceptions.  An expression evaluates to         *)
(* [err |-> "", v |-> the array] or, when it raises, to                    *)
(* [err |-> the exception's name, v |-> <<>>]; an operand that raised      *)
(* propagates.  A one-dimensional float64 array is a sequence of float64;  *)
(* the source's index i is the sequence's index i + 1.                     *)
(***************************************************************************)
Ok(v) == [err |-> "", v |-> v]
Raise(e) == [err |-> e, v |-> <<>>]

\* scalar * array (h*derivs(y,t), 2*k2), elementwise
SMul(c, A) ==
    IF A.err # "" THEN Raise(A.err)
    ELSE Ok(Tuple([i \in 1..Len(A.v) |-> FMul(c, A.v[i])]))

\* array / scalar (k1/2., (...)/6.), elementwise
VDivS(A, c) ==
    IF A.err # "" THEN Raise(A.err)
    ELSE Ok(Tuple([i \in 1..Len(A.v) |-> FDiv(A.v[i], c)]))

\* array + array with numpy's broadcasting of one-dimensional shapes: equal
\* lengths add elementwise, a length-1 operand is stretched, and any other
\* pair of lengths raises ValueError
\* VAdd as it would be if the shapes had to be equal: no broadcasting of a
\* length-1 operand
VAdd_SameShape(A, B) ==
    IF A.err # "" THEN Raise(A.err)
    ELSE IF B.err # "" THEN Raise(B.err)
    ELSE IF Len(A.v) # Len(B.v) THEN Raise("ValueError")
    ELSE Ok(Tuple([i \in 1..Len(A.v) |-> FAdd(A.v[i], B.v[i])]))

VAdd(A, B) ==
    IF A.err # "" THEN Raise(A.err)
    ELSE IF B.err # "" THEN Raise(B.err)
    ELSE IF Len(A.v) # Len(B.v) /\ Len(A.v) # 1 /\ Len(B.v) # 1
    THEN Raise("ValueError")
    ELSE Ok(Tuple([i \in 1..Max(Len(A.v), Len(B.v)) |->
                FAdd(A.v[IF Len(A.v) = 1 THEN 1 ELSE i],
                     B.v[IF Len(B.v) = 1 THEN 1 ELSE i])]))

(***************************************************************************)
(* The kernel's global names.  Each cell assigns its parameters as module  *)
(* globals, and the derivative functions read k, m, g and mu from them at  *)
(* call time.                                                              *)
(***************************************************************************)
VARIABLES
    h,                \* time step, tau/float(N-1)
    k, m, g, mu,      \* spring constant, mass, gravity, friction coefficient
    times,            \* np.arange(0,tau+h,h)
    states,           \* the name the Euler loop reads; no cell of the file binds it
    states_Euler,     \* trajectory of the SHO_Euler cell
    states_rk4,       \* trajectory of the SHO_rk4 cell
    states_rk4_fric,  \* trajectory of the SHO_rk4_friction cell
    j,                \* the loop variable of the three driver loops
    defined,          \* the global names that are bound
    cell,             \* the cell being executed, "idle" between cells
    iter,             \* iterations of the running cell's loop completed so far
    ran,              \* the cells executed so far
    error,            \* the exception that ended each cell's run, "" for none
    work,             \* per cell: stepper calls and evaluations of derivs made by its loop
    call,             \* the latest direct call of a stepper and what it returned
    ff,               \* the free-fall run: steps taken and current state [x, v]
    drv,              \* the stepper and derivative function a caller gives the driver loop
    log,              \* the direct stepper calls of a session, in order
    mix,              \* two cells stepped in turns: rows written, and the bound SHO
    bis,              \* a call of bisection: its arguments, progress and outcome
    prime,            \* the prime-check cell: Number, divisor and what was printed
    fact,             \* the factorial cell: the call in progress and the table printed
    lagr,             \* a call of Lagrange_poly_approx
    lin,              \* a call of linear_interp
    trap,             \* the trapezoid cell: i, total and the points weighted
    simp,             \* the Simpson cell: i, total and the intervals summed
    post              \* a call of lnprob: the prior, the likelihood and the value

vars == <<h, k, m, g, mu, times, states, states_Euler, states_rk4,
          states_rk4_fric, j, defined, cell, iter, ran, error, work, call, ff,
          drv, log, mix, bis, prime, fact, lagr, lin, trap, simp, post>>

kernel == <<h, k, m, g, mu, times, states, states_Euler, states_rk4,
            states_rk4_fric, j, defined, cell, iter, ran, error, work>>

\* the variables of the other chapters' programs and of the other sessions
chapters == <<fact, lagr, lin, trap, simp, post>>

others == <<drv, log, mix, bis, prime, chapters>>

\* everything but the variables of chapters
sessions == <<kernel, call, ff, drv, log, mix, bis, prime>>

\* number of states of a trajectory (the notebook sets N = 1000 in each cell)
N == 4

tau == FromInt(3)

\* the notebook's own number of states and its step: N = 1000 and
\* h = tau/float(N-1)
N_notebook == 1000

h_notebook == FDiv(tau, FromInt(N_notebook - 1))

\* initial position and velocity: 0., 0. in SHO_Euler and SHO_rk4, and
\* y_o = 0.2 in SHO_rk4_friction
y_o == FZero
v_o == FZero
y_o_friction == Lit(2, 10)

(***************************************************************************)
(* Derivative functions.                                                   *)
(***************************************************************************)
\* deriv_freefall with the acceleration's sign lost: yprime[1] = 9.8
deriv_freefall_Up(y, t) ==
    IF Len(y) < 2 THEN Raise("IndexError")
    ELSE Ok(Tuple([i \in 1..Len(y) |->
                IF i = 1 THEN y[2]
                ELSE IF i = 2 THEN Lit(98, 10)
                ELSE FZero]))

\* def deriv_freefall(y,t): yprime = np.zeros(len(y)); yprime[0] = y[1];
\* yprime[1] = -9.8
deriv_freefall(y, t) ==
    IF Len(y) < 2 THEN Raise("IndexError")
    ELSE Ok(Tuple([i \in 1..Len(y) |->
                IF i = 1 THEN y[2]
                ELSE IF i = 2 THEN FNeg(Lit(98, 10))
                ELSE FZero]))

\* SHO with gravity's sign lost: yp[1] = -k/m*x[0] + g
SHO_Up(x, time) ==
    IF Len(x) < 2 THEN Raise("IndexError")
    ELSE Ok(<<x[2], FAdd(FMul(FDiv(FNeg(k), m), x[1]), g)>>)

\* def SHO(x,time) of the SHO_rk4 cell (the SHO_Euler cell's is the same text):
\* yp = np.zeros(2); yp[0] = x[1]; yp[1] = -k/m*x[0] - g
SHO(x, time) ==
    IF Len(x) < 2 THEN Raise("IndexError")
    ELSE Ok(<<x[2], FSub(FMul(FDiv(FNeg(k), m), x[1]), g)>>)

\* def SHO(x,time) of the SHO_rk4_friction cell: the friction term's sign is
\* decided by yp[0], which has just been set to x[1]
\* the rest of the body once yp[0] is set: if yp[0] > 0:
\* yp[1] = -k/m*x[0] - g*mu / else: yp[1] = -k/m*x[0] + g*mu
SHO_friction_yp0(x, yp0) ==
    IF FGt(yp0, FZero)
    THEN Ok(<<yp0, FSub(FMul(FDiv(FNeg(k), m), x[1]), FMul(g, mu))>>)
    ELSE Ok(<<yp0, FAdd(FMul(FDiv(FNeg(k), m), x[1]), FMul(g, mu))>>)

\* the friction opposing a mass at rest as if it moved up: if yp[0] >= 0
SHO_friction_AtRest(x, time) ==
    IF Len(x) < 2 THEN Raise("IndexError")
    ELSE IF FLe(FZero, x[2])
    THEN Ok(<<x[2], FSub(FMul(FDiv(FNeg(k), m), x[1]), FMul(g, mu))>>)
    ELSE Ok(<<x[2], FAdd(FMul(FDiv(FNeg(k), m), x[1]), FMul(g, mu))>>)

\* yp = np.zeros(2); yp[0] = x[1]
SHO_friction(x, time) ==
    IF Len(x) < 2 THEN Raise("IndexError")
    ELSE SHO_friction_yp0(x, x[2])

\* A derivative function passed to a stepper: one of the notebook's, by name,
\* or a caller's function that returns the constant vector c.
Fn(name) == [kind |-> name, c |-> <<>>]
ConstFn(c) == [kind |-> "const", c |-> c]

\* a caller's function that is SHO before the time t0 and raises from t0 on
FailsFrom(t0) == [kind |-> "fails_from", c |-> <<t0>>]

\* derivs(Y, t): the call is only made when the argument evaluated
Apply(derivs, Y, t) ==
    IF Y.err # "" THEN Y
    ELSE CASE derivs.kind = "deriv_freefall" -> deriv_freefall(Y.v, t)
           [] derivs.kind = "SHO"            -> SHO(Y.v, t)
           [] derivs.kind = "SHO_friction"   -> SHO_friction(Y.v, t)
           [] derivs.kind = "const"          -> Ok(derivs.c)
           [] derivs.kind = "fails_from"     ->
                IF FLt(t, derivs.c[1]) THEN SHO(Y.v, t) ELSE Raise("RuntimeError")

\* the point of one evaluation of derivs
Pt(y, t) == [y |-> y, t |-> t]

\* the value r computed from the call derivs(Y, t), with the point of the call
At(r, Y, t) == [err |-> r.err, v |-> r.v, at |-> Pt(Y.v, t)]

\* derivs(Y, t), remembering where it was called
CallDerivs(derivs, Y, t) == At(Apply(derivs, Y, t), Y, t)

\* dt*derivs(Y, t), remembering where derivs was called
Slope(dt, derivs, Y, t) == At(SMul(dt, Apply(derivs, Y, t)), Y, t)

(***************************************************************************)
(* Steppers.  A call returns [ret, y, evals]: the value returned (or the   *)
(* exception raised), the contents of the caller's array y when the call   *)
(* ends (the argument is a view of a trajectory row, so an in-place update *)
(* would show here), and the points at which derivs was called, in order.  *)
(* t and the step are Python floats, passed by value.  The step parameter  *)
(* is written dt, as in the first definition of Euler: h names the global. *)
(***************************************************************************)
\* the call ends with the exception of e, after the evaluations evals of derivs
Raised(y, e, evals) == [ret |-> Raise(e.err), y |-> y, evals |-> evals]

\* def Euler(y,t,dt,derivs): y_next = y + derivs(y,t)*dt; return y_next
\* (yprime is the value of derivs(y,t))
Euler_y_next(y, dt, yprime) ==
    [ret |-> VAdd(Ok(y), SMul(dt, yprime)), y |-> y, evals |-> <<yprime.at>>]

\* Euler with the step forgotten: y_next = y + derivs(y,t)
Euler_NoStep(y, t, dt, derivs) ==
    Euler_y_next(y, FromInt(1), CallDerivs(derivs, Ok(y), t))

\* Euler returning one component: return y_next[0]
Euler_FirstComponent(y, t, dt, derivs) ==
    [ret   |-> IF Euler_y_next(y, dt, CallDerivs(derivs, Ok(y), t)).ret.err # ""
               THEN Euler_y_next(y, dt, CallDerivs(derivs, Ok(y), t)).ret
               ELSE Ok(<<Euler_y_next(y, dt, CallDerivs(derivs, Ok(y), t)).ret.v[1]>>),
     y     |-> y,
     evals |-> <<Pt(y, t)>>]

\* Euler with the step checked at entry: if dt <= 0: raise InvalidStep
Euler_InvalidStep(y, t, dt, derivs) ==
    IF FLe(dt, FZero)
    THEN [ret |-> Raise("InvalidStep"), y |-> y, evals |-> <<>>]
    ELSE Euler_y_next(y, dt, CallDerivs(derivs, Ok(y), t))

Euler(y, t, dt, derivs) == Euler_y_next(y, dt, CallDerivs(derivs, Ok(y), t))

\* def Euler(y,t,h,derivs) of the SHO_Euler cell
Euler_SHO_y_next(y, dt, yprime) ==
    [ret |-> VAdd(Ok(y), SMul(dt, yprime)), y |-> y, evals |-> <<yprime.at>>]

Euler_SHO(y, t, dt, derivs) == Euler_SHO_y_next(y, dt, CallDerivs(derivs, Ok(y), t))

\* def rk4(y,t,h,derivs) of the SHO_rk4 cell.  Each local is bound once and
\* handed to the rest of the body: rk4_k1 is the body after k1's assignment,
\* rk4_y_halfstep1 the body after the first half step's, and so on, and an
\* exception raised by a line ends the call there.  The source reuses the
\* name y_halfstep for the two half steps, written y_halfstep1 and
\* y_halfstep2 here; y_full is the argument y + k3 of the last call.

\* the last line of rk4 with the weights forgotten: y + (k1+k2+k3+k4)/6.
rk4_k4_EqualWeights(y, t, dt, derivs, k1, k2, k3, k4) ==
    IF k4.err # "" THEN Raised(y, k4, <<k1.at, k2.at, k3.at, k4.at>>)
    ELSE [ret   |-> VAdd(Ok(y),
                         VDivS(VAdd(VAdd(VAdd(k1, k2), k3), k4), FromInt(6))),
          y     |-> y,
          evals |-> <<k1.at, k2.at, k3.at, k4.at>>]

\* the last line of rk4 updating the caller's array: y += (...)/6.; return y
rk4_k4_InPlace(y, t, dt, derivs, k1, k2, k3, k4) ==
    IF k4.err # "" THEN Raised(y, k4, <<k1.at, k2.at, k3.at, k4.at>>)
    ELSE [ret   |-> VAdd(Ok(y),
                         VDivS(VAdd(VAdd(VAdd(k1, SMul(FromInt(2), k2)),
                                         SMul(FromInt(2), k3)), k4),
                               FromInt(6))),
          y     |-> VAdd(Ok(y),
                         VDivS(VAdd(VAdd(VAdd(k1, SMul(FromInt(2), k2)),
                                         SMul(FromInt(2), k3)), k4),
                               FromInt(6))).v,
          evals |-> <<k1.at, k2.at, k3.at, k4.at>>]

\* y_next = y + (k1+2*k2+2*k3+k4)/6.; return y_next
rk4_k4(y, t, dt, derivs, k1, k2, k3, k4) ==
    IF k4.err # "" THEN Raised(y, k4, <<k1.at, k2.at, k3.at, k4.at>>)
    ELSE [ret   |-> VAdd(Ok(y),
                         VDivS(VAdd(VAdd(VAdd(k1, SMul(FromInt(2), k2)),
                                         SMul(FromInt(2), k3)), k4),
                               FromInt(6))),
          y     |-> y,
          evals |-> <<k1.at, k2.at, k3.at, k4.at>>]

\* k4 = h*derivs(y + k3,t+h), once its argument y + k3 (y_full) is there
rk4_y_full(y, t, dt, derivs, k1, k2, k3, y_full) ==
    IF y_full.err # "" THEN Raised(y, y_full, <<k1.at, k2.at, k3.at>>)
    ELSE rk4_k4(y, t, dt, derivs, k1, k2, k3, Slope(dt, derivs, y_full, FAdd(t, dt)))

\* the argument y + k3 of the last call of derivs
rk4_k3(y, t, dt, derivs, k1, k2, k3) ==
    IF k3.err # "" THEN Raised(y, k3, <<k1.at, k2.at, k3.at>>)
    ELSE rk4_y_full(y, t, dt, derivs, k1, k2, k3, VAdd(Ok(y), k3))

\* k3 evaluated at the end of the step: k3 = h*derivs(y_halfstep,t+h)
rk4_y_halfstep2_FullTime(y, t, dt, derivs, k1, k2, y_halfstep2) ==
    IF y_halfstep2.err # "" THEN Raised(y, y_halfstep2, <<k1.at, k2.at>>)
    ELSE rk4_k3(y, t, dt, derivs, k1, k2,
                Slope(dt, derivs, y_halfstep2, FAdd(t, dt)))

\* k3 = h*derivs(y_halfstep,t+h/2)
rk4_y_halfstep2(y, t, dt, derivs, k1, k2, y_halfstep2) ==
    IF y_halfstep2.err # "" THEN Raised(y, y_halfstep2, <<k1.at, k2.at>>)
    ELSE rk4_k3(y, t, dt, derivs, k1, k2,
            Slope(dt, derivs, y_halfstep2, FAdd(t, FDiv(dt, FromInt(2)))))

\* y_halfstep = y + k2/2.
rk4_k2(y, t, dt, derivs, k1, k2) ==
    IF k2.err # "" THEN Raised(y, k2, <<k1.at, k2.at>>)
    ELSE rk4_y_halfstep2(y, t, dt, derivs, k1, k2, VAdd(Ok(y), VDivS(k2, FromInt(2))))

\* k2 = h*derivs(y_halfstep,t+h/2)
rk4_y_halfstep1(y, t, dt, derivs, k1, y_halfstep1) ==
    IF y_halfstep1.err # "" THEN Raised(y, y_halfstep1, <<k1.at>>)
    ELSE rk4_k2(y, t, dt, derivs, k1,
            Slope(dt, derivs, y_halfstep1, FAdd(t, FDiv(dt, FromInt(2)))))

\* y_halfstep = y + k1/2.
rk4_k1(y, t, dt, derivs, k1) ==
    IF k1.err # "" THEN Raised(y, k1, <<k1.at>>)
    ELSE rk4_y_halfstep1(y, t, dt, derivs, k1, VAdd(Ok(y), VDivS(k1, FromInt(2))))

\* rk4 keeping the state it returned and starting the next call from it
rk4_Resuming(y, t, dt, derivs) ==
    IF log # <<>> /\ log[Len(log)].ret.err = ""
    THEN rk4_k1(log[Len(log)].ret.v, t, dt, derivs,
                Slope(dt, derivs, Ok(log[Len(log)].ret.v), t))
    ELSE rk4_k1(y, t, dt, derivs, Slope(dt, derivs, Ok(y), t))

\* k1 = h*derivs(y,t)
rk4(y, t, dt, derivs) == rk4_k1(y, t, dt, derivs, Slope(dt, derivs, Ok(y), t))

\* def rk4(y,t,h,derivs) of the SHO_rk4_friction cell, the second definition,
\* translated line by line in the same way
\* y_next = y + (k1+2*k2+2*k3+k4)/6.; return y_next
rk4_friction_k4(y, t, dt, derivs, k1, k2, k3, k4) ==
    IF k4.err # "" THEN Raised(y, k4, <<k1.at, k2.at, k3.at, k4.at>>)
    ELSE [ret   |-> VAdd(Ok(y),
                         VDivS(VAdd(VAdd(VAdd(k1, SMul(FromInt(2), k2)),
                                         SMul(FromInt(2), k3)), k4),
                               FromInt(6))),
          y     |-> y,
          evals |-> <<k1.at, k2.at, k3.at, k4.at>>]

\* k4 = h*derivs(y + k3,t+h), once its argument y + k3 (y_full) is there
rk4_friction_y_full(y, t, dt, derivs, k1, k2, k3, y_full) ==
    IF y_full.err # "" THEN Raised(y, y_full, <<k1.at, k2.at, k3.at>>)
    ELSE rk4_friction_k4(y, t, dt, derivs, k1, k2, k3, Slope(dt, derivs, y_full, FAdd(t, dt)))

\* the argument y + k3 of the last call of derivs
rk4_friction_k3(y, t, dt, derivs, k1, k2, k3) ==
    IF k3.err # "" THEN Raised(y, k3, <<k1.at, k2.at, k3.at>>)
    ELSE rk4_friction_y_full(y, t, dt, derivs, k1, k2, k3, VAdd(Ok(y), k3))

\* k3 = h*derivs(y_halfstep,t+h/2)
rk4_friction_y_halfstep2(y, t, dt, derivs, k1, k2, y_halfstep2) ==
    IF y_halfstep2.err # "" THEN Raised(y, y_halfstep2, <<k1.at, k2.at>>)
    ELSE rk4_friction_k3(y, t, dt, derivs, k1, k2,
                     Slope(dt, derivs, y_halfstep2, FAdd(t, FDiv(dt, FromInt(2)))))

\* y_halfstep = y + k2/2.
rk4_friction_k2(y, t, dt, derivs, k1, k2) ==
    IF k2.err # "" THEN Raised(y, k2, <<k1.at, k2.at>>)
    ELSE rk4_friction_y_halfstep2(y, t, dt, derivs, k1, k2, VAdd(Ok(y), VDivS(k2, FromInt(2))))

\* k2 = h*derivs(y_halfstep,t+h/2)
rk4_friction_y_halfstep1(y, t, dt, derivs, k1, y_halfstep1) ==
    IF y_halfstep1.err # "" THEN Raised(y, y_halfstep1, <<k1.at>>)
    ELSE rk4_friction_k2(y, t, dt, derivs, k1,
                     Slope(dt, derivs, y_halfstep1, FAdd(t, FDiv(dt, FromInt(2)))))

\* y_halfstep = y + k1/2.
rk4_friction_k1(y, t, dt, derivs, k1) ==
    IF k1.err # "" THEN Raised(y, k1, <<k1.at>>)
    ELSE rk4_friction_y_halfstep1(y, t, dt, derivs, k1, VAdd(Ok(y), VDivS(k1, FromInt(2))))

\* k1 = h*derivs(y,t)
rk4_friction(y, t, dt, derivs) == rk4_friction_k1(y, t, dt, derivs, Slope(dt, derivs, Ok(y), t))

\* a call of a name that no cell defines
Unbound(y) == [ret |-> Raise("NameError"), y |-> y, evals |-> <<>>]

\* Step with the midpoint rule of the chapter's text defined as rk2:
\* k1 = h*derivs(y,t); k2 = h*derivs(y + k1/2.,t+h/2); return y + k2
Step_WithRk2(stepper, y, t, dt, derivs) ==
    CASE stepper = "Euler"        -> Euler(y, t, dt, derivs)
      [] stepper = "Euler_SHO"    -> Euler_SHO(y, t, dt, derivs)
      [] stepper = "rk4"          -> rk4(y, t, dt, derivs)
      [] stepper = "rk4_friction" -> rk4_friction(y, t, dt, derivs)
      [] OTHER ->
           [ret   |-> VAdd(Ok(y),
                           Slope(dt, derivs,
                                 VAdd(Ok(y), VDivS(Slope(dt, derivs, Ok(y), t),
                                                   FromInt(2))),
                                 FAdd(t, FDiv(dt, FromInt(2))))),
            y     |-> y,
            evals |-> <<Pt(y, t)>>]

\* stepper(y, t, dt, derivs) for a stepper given by name: the chapter
\* defines Euler (twice) and rk4 (twice) and no other
Step(stepper, y, t, dt, derivs) ==
    CASE stepper = "Euler"        -> Euler(y, t, dt, derivs)
      [] stepper = "Euler_SHO"    -> Euler_SHO(y, t, dt, derivs)
      [] stepper = "rk4"          -> rk4(y, t, dt, derivs)
      [] stepper = "rk4_friction" -> rk4_friction(y, t, dt, derivs)
      [] OTHER                    -> Unbound(y)

(***************************************************************************)
(* Arrays of the cells.                                                    *)
(***************************************************************************)
\* np.zeros((n,2)), rows 0..n-1
Zeros2(n) == [i \in 0..(n - 1) |-> <<FZero, FZero>>]

\* np.arange(start,stop,step) for floats has ceil((stop - start)/step) values

\* the length with stop counted as a value of its own
Arange_length_Closed(start, stop, step) ==
    FCeil(FDiv(FSub(stop, start), step)) + 1

Arange_length(start, stop, step) == FCeil(FDiv(FSub(stop, start), step))

\* value i of np.arange: the first two are start and start + step, the rest
\* start + i*delta with delta = (start + step) - start
Arange_value(start, step, i) ==
    IF i = 0 THEN start
    ELSE IF i = 1 THEN FAdd(start, step)
    ELSE FAdd(start, FMul(FromInt(i), FSub(FAdd(start, step), start)))

Arange(start, stop, step) ==
    [i \in 0..(Arange_length(start, stop, step) - 1) |->
        Arange_value(start, step, i)]

\* the assignment with a slice for the row: a[i:,:] = val
SetRow_Tail(a, i, val) ==
    IF val.err # "" THEN [err |-> val.err, v |-> a]
    ELSE IF i \notin DOMAIN a THEN [err |-> "IndexError", v |-> a]
    ELSE IF Len(val.v) = 2
         THEN Ok([r \in DOMAIN a |-> IF r >= i THEN val.v ELSE a[r]])
    ELSE IF Len(val.v) = 1
         THEN Ok([r \in DOMAIN a |-> IF r >= i THEN <<val.v[1], val.v[1]>> ELSE a[r]])
    ELSE [err |-> "ValueError", v |-> a]

\* a[i,:] = val for rows of length 2: val of length 2 is copied, of length 1
\* stretched, and any other length raises ValueError; an exception raised
\* while val was computed leaves a as it is
SetRow(a, i, val) ==
    IF val.err # "" THEN [err |-> val.err, v |-> a]
    ELSE IF i \notin DOMAIN a THEN [err |-> "IndexError", v |-> a]
    ELSE IF Len(val.v) = 2 THEN Ok([a EXCEPT ![i] = val.v])
    ELSE IF Len(val.v) = 1 THEN Ok([a EXCEPT ![i] = <<val.v[1], val.v[1]>>])
    ELSE [err |-> "ValueError", v |-> a]

(***************************************************************************)
(* The cells.  A cell runs from its first line to its last before another  *)
(* starts; an uncaught exception ends it.  Plotting is left out.           *)
(***************************************************************************)
Cells == {"SHO_Euler", "SHO_rk4", "SHO_rk4_friction"}

\* the exception e ends cell c
Abort(c, e) ==
    /\ error' = [error EXCEPT ![c] = e]
    /\ cell' = "idle"
    /\ ran' = ran \cup {c}

\* an iteration whose exception is caught and passed over: try: ... except: pass
EndIteration_Swallow(c, e) ==
    /\ iter' = iter + 1
    /\ error' = [error EXCEPT ![c] = e]
    /\ UNCHANGED <<cell, ran>>

\* the end of one iteration of cell c's loop, whose assignment raised e or,
\* for e = "", completed
EndIteration(c, e) ==
    IF e # ""
    THEN /\ Abort(c, e)
         /\ UNCHANGED iter
    ELSE /\ iter' = iter + 1
         /\ UNCHANGED <<cell, ran, error>>

\* no call made yet by a cell's loop
NoWork == [calls |-> 0, evals |-> 0]

\* cell c's loop has made one more stepper call, the call r
Counted(c, r) ==
    work' = [work EXCEPT ![c] = [calls |-> @.calls + 1,
                                 evals |-> @.evals + Len(r.evals)]]

\* SHO_Euler, up to the loop: N, y_o, v_o, tau, h, k, m, g, states_Euler,
\* times, states_Euler[0,:] = [y_o,v_o], def Euler, def SHO
Setup_SHO_Euler ==
    /\ cell = "idle" /\ "SHO_Euler" \notin ran
    /\ cell' = "SHO_Euler"
    /\ iter' = 0
    /\ work' = [work EXCEPT !["SHO_Euler"] = NoWork]
    /\ h' = FDiv(tau, FromInt(N - 1))
    /\ k' = Lit(35, 10)
    /\ m' = Lit(2, 10)
    /\ g' = Lit(98, 10)
    /\ states_Euler' = [Zeros2(N) EXCEPT ![0] = <<y_o, v_o>>]
    /\ times' = Arange(FZero, FAdd(tau, h'), h')
    /\ defined' = defined \cup {"h", "k", "m", "g", "times", "states_Euler"}
    /\ UNCHANGED <<mu, states, states_rk4, states_rk4_fric, j, ran,
                   error, call, ff, others>>

\* states_Euler[j+1,:] = (the value r.ret of the call r)
Assign_SHO_Euler(new) ==
    /\ states_Euler' = new.v
    /\ EndIteration("SHO_Euler", new.err)

\* the call r of Euler on the row states[j,:] has ended
Return_SHO_Euler(r) ==
    /\ Counted("SHO_Euler", r)
    /\ states' = [states EXCEPT ![iter] = r.y]
    /\ Assign_SHO_Euler(SetRow(states_Euler, iter + 1, r.ret))

\* for j in range(0,N-1): states_Euler[j+1,:] = Euler(states[j,:],times[j],h,SHO)
\* The argument is row j of the global states, not of states_Euler.
Loop_SHO_Euler ==
    /\ cell = "SHO_Euler" /\ iter < N - 1
    /\ j' = iter
    /\ IF "states" \notin defined
       THEN /\ Abort("SHO_Euler", "NameError")
            /\ UNCHANGED <<iter, states, states_Euler, work>>
       ELSE Return_SHO_Euler(Euler_SHO(states[iter], times[iter], h, Fn("SHO")))
    /\ UNCHANGED <<h, k, m, g, mu, times, states_rk4, states_rk4_fric, defined,
                   call, ff, others>>

\* the loop of SHO_Euler is exhausted
End_SHO_Euler ==
    /\ cell = "SHO_Euler" /\ iter = N - 1
    /\ cell' = "idle"
    /\ ran' = ran \cup {"SHO_Euler"}
    /\ UNCHANGED <<h, k, m, g, mu, times, states, states_Euler, states_rk4,
                   states_rk4_fric, j, defined, iter, error, work, call, ff, others>>

\* SHO_rk4, up to the loop
\* the assignments of the SHO_rk4 cell before its loop
Globals_SHO_rk4 ==
    /\ h' = FDiv(tau, FromInt(N - 1))
    /\ k' = Lit(35, 10)
    /\ m' = Lit(2, 10)
    /\ g' = Lit(98, 10)
    /\ states_rk4' = [Zeros2(N) EXCEPT ![0] = <<y_o, v_o>>]
    /\ times' = Arange(FZero, FAdd(tau, h'), h')
    /\ defined' = defined \cup {"h", "k", "m", "g", "times", "states_rk4"}

Setup_SHO_rk4 ==
    /\ cell = "idle" /\ "SHO_rk4" \notin ran
    /\ cell' = "SHO_rk4"
    /\ iter' = 0
    /\ work' = [work EXCEPT !["SHO_rk4"] = NoWork]
    /\ Globals_SHO_rk4
    /\ UNCHANGED <<mu, states, states_Euler, states_rk4_fric, j, ran, error, call, ff, others>>

\* states_rk4[j+1,:] = (the value returned)
Assign_SHO_rk4(new) ==
    /\ states_rk4' = new.v
    /\ EndIteration("SHO_rk4", new.err)

\* the rk4 loop storing into the row it read: states_rk4[j,:] = rk4(...)
Return_SHO_rk4_SameRow(r) ==
    /\ Counted("SHO_rk4", r)
    /\ Assign_SHO_rk4(SetRow([states_rk4 EXCEPT ![iter] = r.y], iter, r.ret))

\* the call r of rk4 on the row states_rk4[j,:] has ended
Return_SHO_rk4(r) ==
    /\ Counted("SHO_rk4", r)
    /\ Assign_SHO_rk4(SetRow([states_rk4 EXCEPT ![iter] = r.y], iter + 1, r.ret))

\* for j in range(0,N-1): states_rk4[j+1,:] = rk4(states_rk4[j,:],times[j],h,SHO)
Loop_SHO_rk4 ==
    /\ cell = "SHO_rk4" /\ iter < N - 1
    /\ j' = iter
    /\ Return_SHO_rk4(rk4(states_rk4[iter], times[iter], h, Fn("SHO")))
    /\ UNCHANGED <<h, k, m, g, mu, times, states, states_Euler, states_rk4_fric,
                   defined, call, ff, others>>

End_SHO_rk4 ==
    /\ cell = "SHO_rk4" /\ iter = N - 1
    /\ cell' = "idle"
    /\ ran' = ran \cup {"SHO_rk4"}
    /\ UNCHANGED <<h, k, m, g, mu, times, states, states_Euler, states_rk4,
                   states_rk4_fric, j, defined, iter, error, work, call, ff, others>>

\* SHO_rk4_friction, up to the loop: y_o = 0.2, k = 42, m = 0.25, mu = 0.15
\* the assignments of the SHO_rk4_friction cell before its loop
Globals_SHO_rk4_friction ==
    /\ h' = FDiv(tau, FromInt(N - 1))
    /\ k' = FromInt(42)
    /\ m' = Lit(25, 100)
    /\ g' = Lit(98, 10)
    /\ mu' = Lit(15, 100)
    /\ states_rk4_fric' = [Zeros2(N) EXCEPT ![0] = <<y_o_friction, v_o>>]
    /\ times' = Arange(FZero, FAdd(tau, h'), h')
    /\ defined' = defined \cup {"h", "k", "m", "g", "mu", "times", "states_rk4_fric"}

Setup_SHO_rk4_friction ==
    /\ cell = "idle" /\ "SHO_rk4_friction" \notin ran
    /\ cell' = "SHO_rk4_friction"
    /\ iter' = 0
    /\ work' = [work EXCEPT !["SHO_rk4_friction"] = NoWork]
    /\ Globals_SHO_rk4_friction
    /\ UNCHANGED <<states, states_Euler, states_rk4, j, ran, error, call, ff, others>>

Assign_SHO_rk4_friction(new) ==
    /\ states_rk4_fric' = new.v
    /\ EndIteration("SHO_rk4_friction", new.err)

Return_SHO_rk4_friction(r) ==
    /\ Counted("SHO_rk4_friction", r)
    /\ Assign_SHO_rk4_friction(SetRow([states_rk4_fric EXCEPT ![iter] = r.y],
                                       iter + 1, r.ret))

\* for j in range(0,N-1):
\*     states_rk4_fric[j+1,:] = rk4(states_rk4_fric[j,:],times[j],h,SHO)
Loop_SHO_rk4_friction ==
    /\ cell = "SHO_rk4_friction" /\ iter < N - 1
    /\ j' = iter
    /\ Return_SHO_rk4_friction(rk4_friction(states_rk4_fric[iter], times[iter], h,
                                            Fn("SHO_friction")))
    /\ UNCHANGED <<h, k, m, g, mu, times, states, states_Euler, states_rk4,
                   defined, call, ff, others>>

End_SHO_rk4_friction ==
    /\ cell = "SHO_rk4_friction" /\ iter = N - 1
    /\ cell' = "idle"
    /\ ran' = ran \cup {"SHO_rk4_friction"}
    /\ UNCHANGED <<h, k, m, g, mu, times, states, states_Euler, states_rk4,
                   states_rk4_fric, j, defined, iter, error, work, call, ff, others>>

(***************************************************************************)
(* The notebook: the three cells, run one at a time in any order, each at  *)
(* most once.  No cell of the file binds the name states that the Euler    *)
(* loop reads: in a fresh kernel it is unbound, and in a kernel that ran   *)
(* an earlier version of the notebook it holds whatever that left there.   *)
(***************************************************************************)
StaleStates ==
    { [names |-> {}, a |-> Zeros2(0)],
      [names |-> {"states"}, a |-> Zeros2(N)],
      [names |-> {"states"}, a |-> [i \in 0..(N - 1) |-> <<FromInt(1), FZero>>]] }

NoCall ==
    [fn |-> "none", y |-> <<>>, t |-> FZero, dt |-> FZero, derivs |-> Fn("none"),
     ret |-> Ok(<<>>), yAfter |-> <<>>, evals |-> <<>>]

FreeFallStart == [i |-> 0, y |-> <<FZero, FZero>>]

\* nothing of the other programs and sessions has run
NoDriver == [stepper |-> "none", derivs |-> Fn("none")]
NoMix == [pos |-> <<>>, SHO |-> "none"]
NoBisection == [pc |-> "none"]
NoPrime == [pc |-> "none"]

\* a program of another chapter that has not been run
Idle == [pc |-> "none"]

ChaptersInit ==
    /\ fact = Idle /\ lagr = Idle /\ lin = Idle
    /\ trap = Idle /\ simp = Idle /\ post = Idle

OthersInit ==
    /\ drv = NoDriver
    /\ log = <<>>
    /\ mix = NoMix
    /\ bis = NoBisection
    /\ prime = NoPrime
    /\ ChaptersInit

\* the session before a cell has run
KernelInit ==
    /\ \E st \in StaleStates : states = st.a /\ defined = st.names
    /\ h = FZero /\ k = FZero /\ m = FZero /\ g = FZero /\ mu = FZero
    /\ times = <<>>
    /\ states_Euler = Zeros2(0)
    /\ states_rk4 = Zeros2(0)
    /\ states_rk4_fric = Zeros2(0)
    /\ j = 0
    /\ cell = "idle"
    /\ iter = 0
    /\ ran = {}
    /\ error = [c \in Cells |-> ""]
    /\ work = [c \in Cells |-> NoWork]

Init ==
    /\ KernelInit
    /\ call = NoCall
    /\ ff = FreeFallStart
    /\ OthersInit

Next ==
    \/ Setup_SHO_Euler
    \/ Loop_SHO_Euler
    \/ End_SHO_Euler
    \/ Setup_SHO_rk4
    \/ Loop_SHO_rk4
    \/ End_SHO_rk4
    \/ Setup_SHO_rk4_friction
    \/ Loop_SHO_rk4_friction
    \/ End_SHO_rk4_friction

Spec == Init /\ [][Next]_vars

(***************************************************************************)
(* The steppers on their own: one call of a stepper with arguments drawn   *)
(* from small sets, in a kernel where the friction cell has set k, m, g    *)
(* and mu (so that every derivative function of the notebook can be        *)
(* evaluated); and the free-fall run, rk4 applied repeatedly to            *)
(* deriv_freefall from [0, 0] with h = 0.1.                                *)
(***************************************************************************)
YSet ==
    { <<FZero, FZero>>,
      <<Lit(2, 10), FZero>>,
      <<FromInt(1), FromInt(-1)>>,
      <<Lit(15, 10)>>,
      <<FromInt(1), FromInt(2), FromInt(3)>> }

TSet == { FZero, Lit(1, 2) }

HSet == { Lit(1, 10), FromInt(1), FZero, FNeg(Lit(1, 10)) }

DerivSet ==
    { Fn("deriv_freefall"), Fn("SHO"), Fn("SHO_friction"),
      ConstFn(<<FromInt(1), FNeg(Lit(98, 10))>>),
      ConstFn(<<FromInt(2)>>),
      ConstFn(<<FromInt(1), FromInt(2), FromInt(3)>>) }

StepperSet == { "Euler", "Euler_SHO", "rk4", "rk4_friction" }

\* number of steps of the free-fall run
MaxFreeFallSteps == 10

FreeFallH == Lit(1, 10)

StepperInit ==
    /\ h = FDiv(tau, FromInt(N - 1))
    /\ k = FromInt(42)
    /\ m = Lit(25, 100)
    /\ g = Lit(98, 10)
    /\ mu = Lit(15, 100)
    /\ times = <<>>
    /\ states = Zeros2(0)
    /\ states_Euler = Zeros2(0)
    /\ states_rk4 = Zeros2(0)
    /\ states_rk4_fric = Zeros2(0)
    /\ j = 0
    /\ defined = {"h", "k", "m", "g", "mu"}
    /\ cell = "idle"
    /\ iter = 0
    /\ ran = {}
    /\ error = [c \in Cells |-> ""]
    /\ work = [c \in Cells |-> NoWork]
    /\ call = NoCall
    /\ ff = FreeFallStart
    /\ OthersInit

\* the record of the call stepper(y, t, dt, derivs) that ended as r
Called(fn, y, t, dt, derivs, r) ==
    [fn |-> fn, y |-> y, t |-> t, dt |-> dt, derivs |-> derivs,
     ret |-> r.ret, yAfter |-> r.y, evals |-> r.evals]

\* stepper(y, t, dt, derivs), called once from the fresh state
CallStepper ==
    /\ call.fn = "none" /\ ff.i = 0
    /\ \E fn \in StepperSet, y \in YSet, t \in TSet, dt \in HSet, derivs \in DerivSet :
        call' = Called(fn, y, t, dt, derivs, Step(fn, y, t, dt, derivs))
    /\ UNCHANGED <<kernel, ff, others>>

\* rk2(y, t, dt, derivs), the rule the text describes, called once from the
\* fresh state
CallUnbound ==
    /\ call.fn = "none" /\ ff.i = 0
    /\ \E y \in YSet, t \in TSet, dt \in HSet, derivs \in DerivSet :
        call' = Called("rk2", y, t, dt, derivs, Step("rk2", y, t, dt, derivs))
    /\ UNCHANGED <<kernel, ff, others>>

\* the free-fall run after the step that returned r
FreeFallAfter(r) ==
    /\ r.ret.err = ""
    /\ ff' = [i |-> ff.i + 1, y |-> r.ret.v]

\* one more step of the free-fall run: y = rk4(y, i*h, h, deriv_freefall)
FreeFallStep ==
    /\ call.fn = "none" /\ ff.i < MaxFreeFallSteps
    /\ FreeFallAfter(rk4(ff.y, FMul(FromInt(ff.i), FreeFallH), FreeFallH,
                         Fn("deriv_freefall")))
    /\ UNCHANGED <<kernel, call, others>>

StepperNext == CallStepper \/ CallUnbound \/ FreeFallStep

StepperSpec == StepperInit /\ [][StepperNext]_vars


(***************************************************************************)
(* The driver loop with a caller's stepper and derivative function: the    *)
(* SHO_rk4 cell, its loop calling stepper(states_rk4[j,:],times[j],h,f)    *)
(* for the stepper and the function f the session started with.            *)
(***************************************************************************)
DriverDerivSet ==
    { Fn("SHO"), Fn("deriv_freefall"), Fn("SHO_friction") }
      \cup { FailsFrom(Lit(n, 2)) : n \in 0..5 }

DriverInit ==
    /\ KernelInit
    /\ call = NoCall
    /\ ff = FreeFallStart
    /\ \E stepper \in StepperSet, derivs \in DriverDerivSet :
          drv = [stepper |-> stepper, derivs |-> derivs]
    /\ log = <<>>
    /\ mix = NoMix
    /\ bis = NoBisection
    /\ prime = NoPrime
    /\ ChaptersInit

\* for j in range(0,N-1): states_rk4[j+1,:] = stepper(states_rk4[j,:],times[j],h,f)
Loop_Driver ==
    /\ cell = "SHO_rk4" /\ iter < N - 1
    /\ j' = iter
    /\ Return_SHO_rk4(Step(drv.stepper, states_rk4[iter], times[iter], h, drv.derivs))
    /\ UNCHANGED <<h, k, m, g, mu, times, states, states_Euler, states_rk4_fric,
                   defined, call, ff, others>>

DriverNext == Setup_SHO_rk4 \/ Loop_Driver \/ End_SHO_rk4

DriverSpec == DriverInit /\ [][DriverNext]_vars

(***************************************************************************)
(* A session of direct stepper calls, one after another, with the globals  *)
(* of the SHO_rk4_friction cell.                                           *)
(***************************************************************************)
\* number of calls of a session
MaxCalls == 3

RepeatStepperSet == { "Euler_SHO", "rk4" }

RepeatYSet == { <<FZero, FZero>>, <<Lit(2, 10), FZero>> }

RepeatDerivSet == { Fn("SHO"), Fn("SHO_friction") }

\* one more call stepper(y, 0, 0.1, derivs)
CallInSession ==
    /\ Len(log) < MaxCalls
    /\ \E fn \in RepeatStepperSet, y \in RepeatYSet, derivs \in RepeatDerivSet :
        log' = Append(log, Called(fn, y, FZero, FreeFallH, derivs,
                                  Step(fn, y, FZero, FreeFallH, derivs)))
    /\ UNCHANGED <<kernel, call, ff, drv, mix, bis, prime, chapters>>

RepeatNext == CallInSession

RepeatSpec == StepperInit /\ [][RepeatNext]_vars

(***************************************************************************)
(* The SHO_rk4 and SHO_rk4_friction cells with the iterations of their     *)
(* loops taken in turns, in one session: each cell's assignments are made  *)
(* once, before its first iteration, and an iteration of a loop reads the  *)
(* globals h, times, k, m, g, mu and the functions rk4 and SHO that are    *)
(* bound when it runs.  mix.pos[c] is the last row of c's trajectory       *)
(* written (-1 before c's assignments), mix.rk4 and mix.SHO are the        *)
(* definitions the names rk4 and SHO are bound to, mix.last is the cell    *)
(* whose assignments were made last, and mix.own[c] tells that every       *)
(* iteration of c so far ran while c's assignments were the last made.     *)
(***************************************************************************)
MixCells == { "SHO_rk4", "SHO_rk4_friction" }

MixInit ==
    /\ KernelInit /\ defined = {}
    /\ call = NoCall
    /\ ff = FreeFallStart
    /\ mix = [pos  |-> [c \in MixCells |-> -1],
              rk4  |-> "none",
              SHO  |-> "none",
              last |-> "none",
              own  |-> [c \in MixCells |-> TRUE]]
    /\ drv = NoDriver
    /\ log = <<>>
    /\ bis = NoBisection
    /\ prime = NoPrime
    /\ ChaptersInit

\* cell c's assignments and definitions have been made
Mix_Bound(c, rk4_def, SHO_def) ==
    mix' = [mix EXCEPT !.pos[c] = 0, !.rk4 = rk4_def, !.SHO = SHO_def, !.last = c]

\* an iteration of cell c's loop has assigned its row
Mix_Stepped(c, new) ==
    /\ mix' = [mix EXCEPT !.pos[c] = IF new.err = "" THEN @ + 1 ELSE N - 1,
                          !.own[c] = @ /\ mix.last = c]
    /\ error' = [error EXCEPT ![c] = new.err]

\* states_rk4[j+1,:] = (the value returned)
Mix_Assign_SHO_rk4(new) ==
    /\ states_rk4' = new.v
    /\ Mix_Stepped("SHO_rk4", new)

\* states_rk4_fric[j+1,:] = (the value returned)
Mix_Assign_SHO_rk4_friction(new) ==
    /\ states_rk4_fric' = new.v
    /\ Mix_Stepped("SHO_rk4_friction", new)

Mix_Setup_SHO_rk4 ==
    /\ mix.pos["SHO_rk4"] = -1
    /\ Globals_SHO_rk4
    /\ Mix_Bound("SHO_rk4", "rk4", "SHO")
    /\ UNCHANGED <<mu, states, states_Euler, states_rk4_fric, j, cell, iter, ran,
                   error, work, call, ff, drv, log, bis, prime, chapters>>

Mix_Setup_SHO_rk4_friction ==
    /\ mix.pos["SHO_rk4_friction"] = -1
    /\ Globals_SHO_rk4_friction
    /\ Mix_Bound("SHO_rk4_friction", "rk4_friction", "SHO_friction")
    /\ UNCHANGED <<states, states_Euler, states_rk4, j, cell, iter, ran,
                   error, work, call, ff, drv, log, bis, prime, chapters>>

\* states_rk4[j+1,:] = rk4(states_rk4[j,:],times[j],h,SHO), for the next j
Mix_Loop_SHO_rk4 ==
    /\ mix.pos["SHO_rk4"] >= 0 /\ mix.pos["SHO_rk4"] < N - 1
    /\ j' = mix.pos["SHO_rk4"]
    /\ Mix_Assign_SHO_rk4(
           SetRow(states_rk4, mix.pos["SHO_rk4"] + 1,
                  Step(mix.rk4, states_rk4[mix.pos["SHO_rk4"]],
                       times[mix.pos["SHO_rk4"]], h, Fn(mix.SHO)).ret))
    /\ UNCHANGED <<h, k, m, g, mu, times, states, states_Euler, states_rk4_fric,
                   defined, cell, iter, ran, work, call, ff, drv, log, bis, prime, chapters>>

\* states_rk4_fric[j+1,:] = rk4(states_rk4_fric[j,:],times[j],h,SHO), for the
\* next j
Mix_Loop_SHO_rk4_friction ==
    /\ mix.pos["SHO_rk4_friction"] >= 0 /\ mix.pos["SHO_rk4_friction"] < N - 1
    /\ j' = mix.pos["SHO_rk4_friction"]
    /\ Mix_Assign_SHO_rk4_friction(
           SetRow(states_rk4_fric, mix.pos["SHO_rk4_friction"] + 1,
                  Step(mix.rk4, states_rk4_fric[mix.pos["SHO_rk4_friction"]],
                       times[mix.pos["SHO_rk4_friction"]], h, Fn(mix.SHO)).ret))
    /\ UNCHANGED <<h, k, m, g, mu, times, states, states_Euler, states_rk4,
                   defined, cell, iter, ran, work, call, ff, drv, log, bis, prime, chapters>>

MixNext ==
    \/ Mix_Setup_SHO_rk4
    \/ Mix_Loop_SHO_rk4
    \/ Mix_Setup_SHO_rk4_friction
    \/ Mix_Loop_SHO_rk4_friction

MixSpec == MixInit /\ [][MixNext]_vars

(***************************************************************************)
(* bisection(f,a,b,N) of Differentiation.py.  bis holds the arguments, the *)
(* locals a_n, b_n and the number n of iterations completed, the arguments *)
(* at which f was called (in order), the lines printed and, once the call  *)
(* has ended, what it returned or raised.  f may return nan, as even_func  *)
(* does outside its domain: nan is the value with sign 0, every comparison *)
(* with it is false and every product with it is nan.                      *)
(***************************************************************************)
NaN == [s |-> 0, m |-> FZero.m, e |-> 0]

IsNaN(x) == x.s = 0

\* x*y
Times(x, y) == IF IsNaN(x) \/ IsNaN(y) THEN NaN ELSE FMul(x, y)

\* x >= 0, x < 0, x == 0
GeZero(x) == ~IsNaN(x) /\ FLe(FZero, x)

LtZero(x) == ~IsNaN(x) /\ FLt(x, FZero)

EqZero(x) == ~IsNaN(x) /\ FCmp(x, FZero) = 0

\* the functions handed to bisection: x - r, x*x - r, and x - r on x <= lim
\* with nan beyond lim (the shape of even_func)
Minus(r) == [kind |-> "minus", r |-> r, lim |-> FZero]

SquareMinus(r) == [kind |-> "square_minus", r |-> r, lim |-> FZero]

MinusUpTo(r, lim) == [kind |-> "minus_up_to", r |-> r, lim |-> lim]

\* f(x)
Value(f, x) ==
    CASE f.kind = "minus"        -> FSub(x, f.r)
      [] f.kind = "square_minus" -> FSub(FMul(x, x), f.r)
      [] f.kind = "minus_up_to"  ->
           IF FLe(FZero, FSub(f.lim, x)) THEN FSub(x, f.r) ELSE NaN

\* what a call returned or raised
ReturnNone == [err |-> "", none |-> TRUE, v |-> FZero]

Return(x) == [err |-> "", none |-> FALSE, v |-> x]

RaiseIn(e) == [err |-> e, none |-> FALSE, v |-> FZero]

\* the call has ended with ret after calling f at the points at and printing
\* the line said
Bisection_Ended(b, at, said, ret) ==
    [b EXCEPT !.pc = "done", !.evals = @ \o at, !.out = @ \o said, !.ret = ret]

\* the entry test without the roots at the endpoints: if f(a)*f(b) > 0
Bisection_Enter_Strict(f, a, b, N0) ==
    IF /\ ~IsNaN(Times(Value(f, a), Value(f, b)))
       /\ FLt(FZero, Times(Value(f, a), Value(f, b)))
    THEN [pc |-> "done", f |-> f, a |-> a, b |-> b, N |-> N0,
          a_n |-> a, b_n |-> b, n |-> 0, evals |-> <<a, b>>,
          out |-> <<"Bisection method fails.">>, ret |-> ReturnNone]
    ELSE [pc |-> "loop", f |-> f, a |-> a, b |-> b, N |-> N0,
          a_n |-> a, b_n |-> b, n |-> 0, evals |-> <<a, b>>,
          out |-> <<>>, ret |-> ReturnNone]

\* if f(a)*f(b) >= 0: print("Bisection method fails."); return None
\* a_n = a; b_n = b
Bisection_Enter(f, a, b, N0) ==
    IF GeZero(Times(Value(f, a), Value(f, b)))
    THEN [pc |-> "done", f |-> f, a |-> a, b |-> b, N |-> N0,
          a_n |-> a, b_n |-> b, n |-> 0, evals |-> <<a, b>>,
          out |-> <<"Bisection method fails.">>, ret |-> ReturnNone]
    ELSE [pc |-> "loop", f |-> f, a |-> a, b |-> b, N |-> N0,
          a_n |-> a, b_n |-> b, n |-> 0, evals |-> <<a, b>>,
          out |-> <<>>, ret |-> ReturnNone]

\* the body moving the wrong end: if f(a_n)*f_c < 0: a_n = c /
\* elif f(b_n)*f_c < 0: b_n = c
Bisection_Body_WrongEnd(b, c, f_c) ==
    IF LtZero(Times(Value(b.f, b.a_n), f_c))
    THEN [b EXCEPT !.a_n = c, !.n = @ + 1, !.evals = @ \o <<c, b.a_n>>]
    ELSE IF LtZero(Times(Value(b.f, b.b_n), f_c))
    THEN [b EXCEPT !.b_n = c, !.n = @ + 1, !.evals = @ \o <<c, b.a_n, b.b_n>>]
    ELSE IF EqZero(f_c)
    THEN Bisection_Ended(b, <<c, b.a_n, b.b_n>>, <<"Found exact solution.">>,
                         RaiseIn("NameError"))
    ELSE Bisection_Ended(b, <<c, b.a_n, b.b_n>>, <<"Bisection method fails.">>,
                         ReturnNone)

\* the second test repeated in the first: if f(b_n)*f_c < 0: b_n = c /
\* elif f(b_n)*f_c < 0: a_n = c
Bisection_Body_SameTest(b, c, f_c) ==
    IF LtZero(Times(Value(b.f, b.b_n), f_c))
    THEN [b EXCEPT !.b_n = c, !.n = @ + 1, !.evals = @ \o <<c, b.b_n>>]
    ELSE IF LtZero(Times(Value(b.f, b.b_n), f_c))
    THEN [b EXCEPT !.a_n = c, !.n = @ + 1, !.evals = @ \o <<c, b.b_n, b.b_n>>]
    ELSE IF EqZero(f_c)
    THEN Bisection_Ended(b, <<c, b.b_n, b.b_n>>, <<"Found exact solution.">>,
                         RaiseIn("NameError"))
    ELSE Bisection_Ended(b, <<c, b.b_n, b.b_n>>, <<"Bisection method fails.">>,
                         ReturnNone)

\* the body of the loop once c and f_c = f(c) are there:
\* if f(a_n)*f_c < 0: b_n = c / elif f(b_n)*f_c < 0: a_n = c /
\* elif f_c == 0: print("Found exact solution."); return m_n /
\* else: print("Bisection method fails."); return None
\* No line binds m_n: evaluating it raises NameError.
Bisection_Body(b, c, f_c) ==
    IF LtZero(Times(Value(b.f, b.a_n), f_c))
    THEN [b EXCEPT !.b_n = c, !.n = @ + 1, !.evals = @ \o <<c, b.a_n>>]
    ELSE IF LtZero(Times(Value(b.f, b.b_n), f_c))
    THEN [b EXCEPT !.a_n = c, !.n = @ + 1, !.evals = @ \o <<c, b.a_n, b.b_n>>]
    ELSE IF EqZero(f_c)
    THEN Bisection_Ended(b, <<c, b.a_n, b.b_n>>, <<"Found exact solution.">>,
                         RaiseIn("NameError"))
    ELSE Bisection_Ended(b, <<c, b.a_n, b.b_n>>, <<"Bisection method fails.">>,
                         ReturnNone)

\* the midpoint without the division: c = (a_n + b_n)
Midpoint_NotHalved(a_n, b_n) == FAdd(a_n, b_n)

\* c = (a_n + b_n)/2
Midpoint(a_n, b_n) == FDiv(FAdd(a_n, b_n), FromInt(2))

\* the largest N of a call
MaxIterations == 3

BisectionFSet ==
    { Minus(FZero), Minus(Lit(1, 2)), Minus(Lit(3, 10)), SquareMinus(FromInt(2)),
      SquareMinus(FAdd(FromInt(1), Pow2(-52))),
      MinusUpTo(Lit(1, 4), Lit(1, 2)), MinusUpTo(Lit(3, 4), Lit(3, 2)) }

BisectionIntervalSet ==
    { <<FNeg(FromInt(1)), FromInt(1)>>, <<FZero, FromInt(1)>>,
      <<FromInt(1), FromInt(2)>>, <<FZero, FromInt(2)>>,
      <<FromInt(1), FZero>>, <<FromInt(1), FromInt(1)>>,
      <<FromInt(1), FAdd(FromInt(1), Pow2(-51))>> }

\* bisection(f,a,b,N) is called, up to the loop
Bisection_Call ==
    /\ bis.pc = "none"
    /\ \E f \in BisectionFSet, ab \in BisectionIntervalSet, N0 \in 0..MaxIterations :
         bis' = Bisection_Enter(f, ab[1], ab[2], N0)
    /\ UNCHANGED <<kernel, call, ff, drv, log, mix, prime, chapters>>

\* one iteration of for n in range(1,N+1)
Bisection_Iteration ==
    /\ bis.pc = "loop" /\ bis.n < bis.N
    /\ bis' = Bisection_Body(bis, Midpoint(bis.a_n, bis.b_n),
                             Value(bis.f, Midpoint(bis.a_n, bis.b_n)))
    /\ UNCHANGED <<kernel, call, ff, drv, log, mix, prime, chapters>>

\* the loop is exhausted: return (a_n + b_n)/2
Bisection_Return ==
    /\ bis.pc = "loop" /\ bis.n = bis.N
    /\ bis' = Bisection_Ended(bis, <<>>, <<>>, Return(Midpoint(bis.a_n, bis.b_n)))
    /\ UNCHANGED <<kernel, call, ff, drv, log, mix, prime, chapters>>

BisectionInit ==
    /\ KernelInit /\ defined = {}
    /\ call = NoCall
    /\ ff = FreeFallStart
    /\ OthersInit

BisectionNext == Bisection_Call \/ Bisection_Iteration \/ Bisection_Return

BisectionSpec == BisectionInit /\ [][BisectionNext]_vars

(***************************************************************************)
(* The prime check of Python_Basics.py.  prime holds Number, divisor, and  *)
(* the line printed: divisor d or the verdict prime.                       *)
(***************************************************************************)
\* the largest |Number| typed in
MaxNumber == 25

NothingPrinted == [kind |-> "none", d |-> 0]

\* print(Number," is divisible by ",divisor, " and thus, not prime")
PrintedDivisible(d) == [kind |-> "divisible", d |-> d]

\* print(Number," is a prime number")
PrintedPrime == [kind |-> "prime", d |-> 0]

\* Number = int(input(...)); divisor = 2
Prime_Input ==
    /\ prime.pc = "none"
    /\ \E n \in (-MaxNumber)..MaxNumber :
         prime' = [pc |-> "while", Number |-> n, divisor |-> 2,
                   out |-> NothingPrinted]
    /\ UNCHANGED <<kernel, call, ff, drv, log, mix, bis, chapters>>

\* while divisor < Number: one pass of the body:
\* if Number % divisor == 0: print(...); break / else: divisor += 1
Prime_While ==
    /\ prime.pc = "while" /\ prime.divisor < prime.Number
    /\ prime' = IF prime.Number % prime.divisor = 0
                THEN [prime EXCEPT !.pc = "done",
                                   !.out = PrintedDivisible(prime.divisor)]
                ELSE [prime EXCEPT !.divisor = @ + 1]
    /\ UNCHANGED <<kernel, call, ff, drv, log, mix, bis, chapters>>

\* the condition of the while is false: the else block of the loop runs
Prime_Else ==
    /\ prime.pc = "while" /\ ~(prime.divisor < prime.Number)
    /\ prime' = [prime EXCEPT !.pc = "done", !.out = PrintedPrime]
    /\ UNCHANGED <<kernel, call, ff, drv, log, mix, bis, chapters>>

PrimeInit ==
    /\ KernelInit /\ defined = {}
    /\ call = NoCall
    /\ ff = FreeFallStart
    /\ OthersInit

PrimeNext == Prime_Input \/ Prime_While \/ Prime_Else

PrimeSpec == PrimeInit /\ [][PrimeNext]_vars

(***************************************************************************)
(* factorial(n) of Python_Basics.py and the table printed from it.  fact   *)
(* holds the call in progress (n, the loop variable i, the local f), who   *)
(* made it, the value of a call made directly, and the rows printed.       *)
(* Python integers do not overflow; the arguments are kept small enough    *)
(* for the products to stay below 2^31.                                    *)
(***************************************************************************)
\* the largest |n| of a direct call
MaxArgument == 11

\* for j in range(0,10)
TableRows == 10

\* the stop of range(2,n) : the loop leaves n out
RangeStop_Short(n) == n

\* the stop of range(2,n+1)
RangeStop(n) == n + 1

\* f = 1, and the loop variable before its first value 2
Factorial_Enter(n, from, table) ==
    [pc |-> "for", n |-> n, i |-> 2, f |-> 1, from |-> from, ret |-> 0,
     table |-> table]

\* factorial(n) called on its own
Factorial_Call ==
    /\ fact.pc = "none"
    /\ \E n \in (-MaxArgument)..MaxArgument :
         fact' = Factorial_Enter(n, "direct", <<>>)
    /\ UNCHANGED <<sessions, lagr, lin, trap, simp, post>>

\* for j in range(0,10): ... factorial(j): the call of the next row
Table_Call ==
    /\ \/ fact.pc = "none" /\ fact' = Factorial_Enter(0, "table", <<>>)
       \/ /\ fact.pc = "table" /\ Len(fact.table) < TableRows
          /\ fact' = Factorial_Enter(Len(fact.table), "table", fact.table)
    /\ UNCHANGED <<sessions, lagr, lin, trap, simp, post>>

\* for i in range(2,n+1): f *= i
Factorial_Loop ==
    /\ fact.pc = "for" /\ fact.i < RangeStop(fact.n)
    /\ fact' = [fact EXCEPT !.f = @ * fact.i, !.i = @ + 1]
    /\ UNCHANGED <<sessions, lagr, lin, trap, simp, post>>

\* return f, and print("%2d %7d" % (j,factorial(j))) when the table called
Factorial_Return ==
    /\ fact.pc = "for" /\ ~(fact.i < RangeStop(fact.n))
    /\ fact' = IF fact.from = "direct"
               THEN [fact EXCEPT !.pc = "done", !.ret = fact.f]
               ELSE [fact EXCEPT !.pc = IF Len(fact.table) + 1 < TableRows
                                        THEN "table" ELSE "done",
                                 !.table = Append(@, <<fact.n, fact.f>>)]
    /\ UNCHANGED <<sessions, lagr, lin, trap, simp, post>>

\* a session in which only the programs of the other chapters run
ChaptersSession ==
    /\ KernelInit /\ defined = {}
    /\ call = NoCall
    /\ ff = FreeFallStart
    /\ OthersInit

FactorialNext == Factorial_Call \/ Table_Call \/ Factorial_Loop \/ Factorial_Return

FactorialSpec == ChaptersSession /\ [][FactorialNext]_vars

(***************************************************************************)
(* Lagrange_poly_approx(x_n,g_n,x) of Data_Fitting.py.  lagr holds the     *)
(* arguments, lam, the loop variables i and j (from 0, as in the code; the *)
(* tables are sequences, so x_n[i] of the code is x_n[i + 1] here) and the *)
(* value returned.  The tables of integers are converted by the first      *)
(* division, so they are floats here.                                      *)
(***************************************************************************)
\* the factor with the denominator turned round: (x-x_n[j])/(x_n[j]-x_n[i])
Multiplier_Flipped(x_n, x, i, jj) ==
    FDiv(FSub(x, x_n[jj + 1]), FSub(x_n[jj + 1], x_n[i + 1]))

\* (x-x_n[j])/(x_n[i]-x_n[j]), with jj for the code's j
Multiplier(x_n, x, i, jj) ==
    FDiv(FSub(x, x_n[jj + 1]), FSub(x_n[i + 1], x_n[jj + 1]))

RECURSIVE Sum(_, _, _)
\* np.sum(v) continued from element i with the partial sum acc
Sum(v, i, acc) == IF i > Len(v) THEN acc ELSE Sum(v, i + 1, FAdd(acc, v[i]))

\* lam*g_n
Product_Elementwise(lam, g_n) == [i \in 1..Len(lam) |-> FMul(lam[i], g_n[i])]

\* xvals = np.array([0,1,2,4]); gvals = np.array([-12,-12,-24,-60])
xvals == <<FZero, FromInt(1), FromInt(2), FromInt(4)>>

gvals == <<FNeg(FromInt(12)), FNeg(FromInt(12)), FNeg(FromInt(24)), FNeg(FromInt(60))>>

\* the tables handed to the interpolation functions: x_n increasing
TableSet ==
    { [x_n |-> xvals, g_n |-> gvals],
      [x_n |-> <<Lit(1, 10), Lit(3, 10), Lit(7, 10)>>,
       g_n |-> <<FromInt(1), Lit(2, 10), FNeg(FromInt(3))>>],
      [x_n |-> <<FNeg(FromInt(1)), Lit(1, 3)>>, g_n |-> <<Lit(1, 3), FromInt(5)>>],
      [x_n |-> <<FromInt(2)>>, g_n |-> <<Lit(7, 10)>>] }

\* the values of x
XSet ==
    { FZero, FromInt(1), FromInt(2), FromInt(4), Lit(1, 2), FromInt(3),
      Lit(1, 10), Lit(3, 10), Lit(7, 10), FNeg(FromInt(1)), Lit(1, 3),
      FromInt(5) }

\* n = len(x_n); lam = np.ones(n)
Lagrange_Call ==
    /\ lagr.pc = "none"
    /\ \E tb \in TableSet, x \in XSet :
         lagr' = [pc |-> "for", x_n |-> tb.x_n, g_n |-> tb.g_n, x |-> x,
                  n |-> Len(tb.x_n), lam |-> [i \in 1..Len(tb.x_n) |-> FromInt(1)],
                  i |-> 0, j |-> 0, ret |-> FZero]
    /\ UNCHANGED <<sessions, fact, lin, trap, simp, post>>

\* one pass of for j in range(0,n) inside for i in range(0,n):
\* if i !=j: lam[i] *= (x-x_n[j])/(x_n[i]-x_n[j])
Lagrange_Inner ==
    /\ lagr.pc = "for" /\ lagr.i < lagr.n
    /\ lagr' = [lagr EXCEPT
          !.lam = IF lagr.i # lagr.j
                  THEN [@ EXCEPT ![lagr.i + 1] =
                           FMul(@, Multiplier(lagr.x_n, lagr.x, lagr.i, lagr.j))]
                  ELSE @,
          !.j = IF lagr.j + 1 < lagr.n THEN lagr.j + 1 ELSE 0,
          !.i = IF lagr.j + 1 < lagr.n THEN lagr.i ELSE lagr.i + 1]
    /\ UNCHANGED <<sessions, fact, lin, trap, simp, post>>

\* return np.sum(lam*g_n)
Lagrange_Return ==
    /\ lagr.pc = "for" /\ lagr.i = lagr.n
    /\ lagr' = [lagr EXCEPT !.pc = "done",
                   !.ret = Sum(Product_Elementwise(lagr.lam, lagr.g_n), 1, FZero)]
    /\ UNCHANGED <<sessions, fact, lin, trap, simp, post>>

LagrangeNext == Lagrange_Call \/ Lagrange_Inner \/ Lagrange_Return

LagrangeSpec == ChaptersSession /\ [][LagrangeNext]_vars

(***************************************************************************)
(* The trapezoid and Simpson cells of Integration.py.  Each cell sets      *)
(* a, b, N = 0., 3., 4 at its top; the number of points is the parameter   *)
(* the chapter asks its reader to change, so a run starts from any number  *)
(* of points up to MaxPoints.  trap and simp hold the globals of a run,    *)
(* the loop variable i, tot_sum, and the points and weights used so far.   *)
(***************************************************************************)
\* the largest number of points of a run
MaxPoints == 48

\* a, b = 0., 3.
QuadA == FZero

QuadB == FromInt(3)

\* def func(x): return x*x
func(x) == FMul(x, x)

\* the weights with the first point taken for interior: if i==0 or i== N
func_weight_FromZero(i, width, points) ==
    IF i = 0 \/ i = points THEN FDiv(width, FromInt(2)) ELSE width

\* def func_weight(i,h): if i==1 or i== N: weight = h/2. / else: weight = h
\* (points is the global N)
func_weight(i, width, points) ==
    IF i = 1 \/ i = points THEN FDiv(width, FromInt(2)) ELSE width

\* h = (b-a)/float(N-1); tot_sum = 0.  float(N-1) is 0.0 for one point and
\* the division raises ZeroDivisionError
Quadrature_Setup(points) ==
    IF points = 1
    THEN [pc |-> "done", err |-> "ZeroDivisionError", N |-> points, h |-> FZero,
          i |-> 1, tot_sum |-> FZero, pts |-> <<>>, wts |-> <<>>]
    ELSE [pc |-> "for", err |-> "", N |-> points,
          h |-> FDiv(FSub(QuadB, QuadA), FromInt(points - 1)),
          i |-> 1, tot_sum |-> FZero, pts |-> <<>>, wts |-> <<>>]

Trapezoid_Setup ==
    /\ trap.pc = "none"
    /\ \E points \in 1..MaxPoints : trap' = Quadrature_Setup(points)
    /\ UNCHANGED <<sessions, fact, lagr, lin, simp, post>>

\* x_i = a + (i-1)*h
Trapezoid_x_i(t) == FAdd(QuadA, FMul(FromInt(t.i - 1), t.h))

\* for i in range(1,N+1): tot_sum += func(x_i)*func_weight(i,h)
Trapezoid_Loop ==
    /\ trap.pc = "for" /\ trap.i < trap.N + 1
    /\ trap' = [trap EXCEPT
          !.tot_sum = FAdd(@, FMul(func(Trapezoid_x_i(trap)),
                                   func_weight(trap.i, trap.h, trap.N))),
          !.pts = Append(@, Trapezoid_x_i(trap)),
          !.wts = Append(@, func_weight(trap.i, trap.h, trap.N)),
          !.i = @ + 1]
    /\ UNCHANGED <<sessions, fact, lagr, lin, simp, post>>

\* print(' Total sum = ', tot_sum)
Trapezoid_End ==
    /\ trap.pc = "for" /\ trap.i = trap.N + 1
    /\ trap' = [trap EXCEPT !.pc = "done"]
    /\ UNCHANGED <<sessions, fact, lagr, lin, simp, post>>

TrapezoidNext == Trapezoid_Setup \/ Trapezoid_Loop \/ Trapezoid_End

TrapezoidSpec == ChaptersSession /\ [][TrapezoidNext]_vars

(***************************************************************************)
(* linear_interp(x_n,g_n,x) of Data_Fitting.py.  lin holds the arguments,  *)
(* inner_idx and outer_idx (from 0, as in the code) and what the call      *)
(* returned or raised.                                                     *)
(***************************************************************************)
\* np.where(x>=x_n)[0]: the indices i, from 0, with x >= x_n[i]
Where_GreaterEqual(x_n, x) == { i \in 0..(Len(x_n) - 1) : FLe(x_n[i + 1], x) }

\* the last index of a non-empty result of np.where
Last(idx) == CHOOSE i \in idx : \A i2 \in idx : i2 <= i

\* if len(inner_idx)==0: inner_idx = 0 / else: inner_idx = inner_idx[-1]
inner_idx_of(x_n, x) ==
    IF Where_GreaterEqual(x_n, x) = {} THEN 0 ELSE Last(Where_GreaterEqual(x_n, x))

\* g_n[inner_idx] + (x-x_n[inner_idx])/(x_n[outer_idx]-x_n[inner_idx])
\*                  *(g_n[outer_idx]-g_n[inner_idx])
\* An index that is not in the table raises IndexError.
linear_interp_return(l) ==
    IF l.outer_idx + 1 \notin DOMAIN l.x_n \/ l.inner_idx + 1 \notin DOMAIN l.x_n
    THEN RaiseIn("IndexError")
    ELSE Return(FAdd(l.g_n[l.inner_idx + 1],
                     FMul(FDiv(FSub(l.x, l.x_n[l.inner_idx + 1]),
                               FSub(l.x_n[l.outer_idx + 1], l.x_n[l.inner_idx + 1])),
                          FSub(l.g_n[l.outer_idx + 1], l.g_n[l.inner_idx + 1]))))

\* inner_idx = np.where(x>=x_n)[0] and the choice of its last element
Linear_Call ==
    /\ lin.pc = "none"
    /\ \E tb \in TableSet, x \in XSet :
         lin' = [pc |-> "inner", x_n |-> tb.x_n, g_n |-> tb.g_n, x |-> x,
                 inner_idx |-> inner_idx_of(tb.x_n, x), outer_idx |-> 0,
                 ret |-> ReturnNone]
    /\ UNCHANGED <<sessions, fact, lagr, trap, simp, post>>

\* outer_idx = inner_idx+1
Linear_Outer ==
    /\ lin.pc = "inner"
    /\ lin' = [lin EXCEPT !.pc = "outer", !.outer_idx = lin.inner_idx + 1]
    /\ UNCHANGED <<sessions, fact, lagr, trap, simp, post>>

\* if inner_idx != outer_idx: return ...; a call that falls off the end of
\* the function returns None
Linear_Return ==
    /\ lin.pc = "outer"
    /\ lin' = [lin EXCEPT !.pc = "done",
                  !.ret = IF lin.inner_idx # lin.outer_idx
                          THEN linear_interp_return(lin) ELSE ReturnNone]
    /\ UNCHANGED <<sessions, fact, lagr, trap, simp, post>>

LinearNext == Linear_Call \/ Linear_Outer \/ Linear_Return

LinearSpec == ChaptersSession /\ [][LinearNext]_vars

\* the Simpson cell: x_left, x_mid and x_right of pass i of its loop
Simpson_x_left(s) == FAdd(QuadA, FMul(FromInt(s.i - 1), s.h))

Simpson_x_right(s) == FAdd(QuadA, FMul(FromInt(s.i), s.h))

Simpson_x_mid(s) == FAdd(Simpson_x_left(s), FDiv(s.h, FromInt(2)))

\* the term with the weight of the rule on pairs of intervals: (h/3.)*(...)
Simpson_term_Thirds(width, x_left, x_mid, x_right) ==
    FMul(FDiv(width, FromInt(3)),
         FAdd(FAdd(func(x_left), FMul(FromInt(4), func(x_mid))), func(x_right)))

\* (h/6.)*(func(x_left)+4*func(x_mid)+func(x_right))
Simpson_term(width, x_left, x_mid, x_right) ==
    FMul(FDiv(width, FromInt(6)),
         FAdd(FAdd(func(x_left), FMul(FromInt(4), func(x_mid))), func(x_right)))

Simpson_Setup ==
    /\ simp.pc = "none"
    /\ \E points \in 1..MaxPoints : simp' = Quadrature_Setup(points)
    /\ UNCHANGED <<sessions, fact, lagr, lin, trap, post>>

\* for i in range(1,N): tot_sum += (h/6.)*(...); pts collects the intervals
Simpson_Loop ==
    /\ simp.pc = "for" /\ simp.i < simp.N
    /\ simp' = [simp EXCEPT
          !.tot_sum = FAdd(@, Simpson_term(simp.h, Simpson_x_left(simp),
                                           Simpson_x_mid(simp), Simpson_x_right(simp))),
          !.pts = Append(@, <<Simpson_x_left(simp), Simpson_x_mid(simp),
                              Simpson_x_right(simp)>>),
          !.i = @ + 1]
    /\ UNCHANGED <<sessions, fact, lagr, lin, trap, post>>

\* print(' Total sum = ', tot_sum)
Simpson_End ==
    /\ simp.pc = "for" /\ simp.i = simp.N
    /\ simp' = [simp EXCEPT !.pc = "done"]
    /\ UNCHANGED <<sessions, fact, lagr, lin, trap, post>>

SimpsonNext == Simpson_Setup \/ Simpson_Loop \/ Simpson_End

SimpsonSpec == ChaptersSession /\ [][SimpsonNext]_vars

\* -np.inf; binary64 values otherwise carry no zero significand with sign -1
MinusInfinity == [s |-> -1, m |-> FZero.m, e |-> 0]

\* lo <= x <= hi, false of a NaN
Chain(lo, x, hi) == ~IsNaN(x) /\ FLe(FromInt(lo), x) /\ FLe(x, FromInt(hi))

\* lo < x < hi
Chain_Open(lo, x, hi) == ~IsNaN(x) /\ FLt(FromInt(lo), x) /\ FLt(x, FromInt(hi))

\* the prior with the limits themselves left out
log_prior_Open(a_m) ==
    IF ~Chain_Open(25000, a_m[1], 50000) THEN MinusInfinity
    ELSE IF ~Chain_Open(75, a_m[2], 300) THEN MinusInfinity
    ELSE FZero

\* N_o, lam = a_m; two penalties; return 0.
log_prior(a_m) ==
    IF ~Chain(25000, a_m[1], 50000) THEN MinusInfinity
    ELSE IF ~Chain(75, a_m[2], 300) THEN MinusInfinity
    ELSE FZero

\* np.isfinite(x)
isfinite(x) == ~IsNaN(x) /\ x # MinusInfinity

\* x + y
Plus(x, y) ==
    IF IsNaN(x) \/ IsNaN(y) THEN NaN
    ELSE IF x = MinusInfinity \/ y = MinusInfinity THEN MinusInfinity
    ELSE FAdd(x, y)

\* the guesses of the walkers: N_o and lam at, next to and away from the limits
N_oSet == {FromInt(24999), FromInt(25000), FromInt(25001), FromInt(37500),
           FromInt(50000), FromInt(50001), NaN}

lamSet == {FromInt(74), FromInt(75), FromInt(76), FromInt(150),
           FromInt(300), FromInt(301), NaN}

\* what log_prob may return for the data at hand
log_probSet == {FromInt(-12), FNeg(Pow2(-1)), MinusInfinity, NaN}

\* lnprob(a_m,x,y,yerr) up to lp = log_prior(a_m)
Lnprob_Call ==
    /\ post.pc = "none"
    /\ \E N_o \in N_oSet, lam \in lamSet :
         post' = [pc |-> "if", a_m |-> <<N_o, lam>>, lp |-> log_prior(<<N_o, lam>>),
                  evaluated |-> 0, ll |-> FZero, ret |-> FZero]
    /\ UNCHANGED <<sessions, fact, lagr, lin, trap, simp>>

\* if not np.isfinite(lp): return -np.inf
Lnprob_Penalty ==
    /\ post.pc = "if" /\ ~isfinite(post.lp)
    /\ post' = [post EXCEPT !.pc = "done", !.ret = MinusInfinity]
    /\ UNCHANGED <<sessions, fact, lagr, lin, trap, simp>>

\* return lp + log_prob(a_m,x,y,yerr)
Lnprob_Return ==
    /\ post.pc = "if" /\ isfinite(post.lp)
    /\ \E ll \in log_probSet :
         post' = [post EXCEPT !.pc = "done", !.evaluated = @ + 1, !.ll = ll,
                              !.ret = Plus(post.lp, ll)]
    /\ UNCHANGED <<sessions, fact, lagr, lin, trap, simp>>

LnprobNext == Lnprob_Call \/ Lnprob_Penalty \/ Lnprob_Return

LnprobSpec == ChaptersSession /\ [][LnprobNext]_vars

(***************************************************************************)
(* Properties.                                                             *)
(***************************************************************************)
\* |x|
FAbs(x) == [x EXCEPT !.s = 1]

FMax(a, b) == IF FLt(a, b) THEN b ELSE a

\* |a - b| <= 2^e * scale
Within(a, b, e, scale) == FLe(FAbs(FSub(a, b)), FMul(Pow2(e), scale))

\* component i of a vector that numpy stretches when it has one element
Stretch(v, i) == IF Len(v) = 1 THEN v[1] ELSE v[i]

\* every call of derivs made by the call c returned a vector as long as c.y
SameLength(c) ==
    /\ Len(c.evals) >= 1
    /\ \A i \in 1..Len(c.evals) :
        /\ Apply(c.derivs, Ok(c.evals[i].y), c.evals[i].t).err = ""
        /\ Len(Apply(c.derivs, Ok(c.evals[i].y), c.evals[i].t).v) = Len(c.y)

\* the trajectory a of a driver loop that has completed its first n steps
\* with the stepper's results r[i] = stepper(a[i], times[i], h, SHO).ret
Driven(a, n, r) ==
    /\ DOMAIN a = 0..(N - 1)
    /\ a[0] = <<y_o, v_o>>
    /\ n <= N - 1
    /\ \A i \in 0..(n - 1) : r[i].err = "" /\ a[i + 1] = r[i].v

\* C1. While the rk4 cell runs, h = tau/(N-1), the trajectory has exactly N
\* rows, row 0 is [y_o, v_o], and every row i+1 written so far is
\* rk4(row i, times[i], h, SHO); the loop ends without an exception.
C1_Rk4Driver ==
    /\ cell = "SHO_rk4" =>
        /\ h = FDiv(tau, FromInt(N - 1))
        /\ Driven(states_rk4, iter,
                  [i \in 0..(N - 2) |->
                      rk4(states_rk4[i], times[i], h, Fn("SHO")).ret])
    /\ "SHO_rk4" \in ran => error["SHO_rk4"] = ""

\* the rk4 loop has written its last row
C1_Witness ==
    /\ cell = "SHO_rk4" /\ iter = N - 1
    /\ states_rk4[N - 1] # <<FZero, FZero>>
    /\ states_rk4[N - 1] # states_rk4[N - 2]

\* C2. While the Euler cell runs, every row j+1 written so far is
\* Euler(states_Euler[j], times[j], h, SHO), and the loop ends without an
\* exception.
C2_EulerDriver ==
    /\ cell = "SHO_Euler" =>
        Driven(states_Euler, iter,
               [i \in 0..(N - 2) |->
                   Euler_SHO(states_Euler[i], times[i], h, Fn("SHO")).ret])
    /\ "SHO_Euler" \in ran => error["SHO_Euler"] = ""

\* y + yprime*dt component by component, yprime being the value of derivs
C3_Sum(y, dt, yprime, ret) ==
    IF yprime.err # "" THEN ret = Raise(yprime.err)
    ELSE Len(yprime.v) = Len(y) =>
            /\ ret.err = ""
            /\ Len(ret.v) = Len(y)
            /\ \A i \in 1..Len(y) : ret.v[i] = FAdd(y[i], FMul(yprime.v[i], dt))

\* C3. Both definitions of Euler call derivs once, at (y, t), and return
\* y + derivs(y, t)*dt component by component.
C3_EulerStep ==
    call.fn \in {"Euler", "Euler_SHO"} =>
        /\ call.evals = <<Pt(call.y, call.t)>>
        /\ C3_Sum(call.y, call.dt, Apply(call.derivs, Ok(call.y), call.t), call.ret)

\* an Euler step of the oscillator that moved the state
C3_Witness ==
    /\ call.fn = "Euler_SHO" /\ call.derivs = Fn("SHO")
    /\ call.ret.err = "" /\ call.ret.v # call.y
    /\ ~IsZero(call.dt)

\* the four evaluations of rk4 and its result, from the formulas
C4_Stages(y, t, dt, derivs, ret, evals) ==
    LET half == FAdd(t, FDiv(dt, FromInt(2)))
        k1 == SMul(dt, Apply(derivs, Ok(y), t))
        y2 == VAdd(Ok(y), VDivS(k1, FromInt(2)))
        k2 == SMul(dt, Apply(derivs, y2, half))
        y3 == VAdd(Ok(y), VDivS(k2, FromInt(2)))
        k3 == SMul(dt, Apply(derivs, y3, half))
        y4 == VAdd(Ok(y), k3)
        k4 == SMul(dt, Apply(derivs, y4, FAdd(t, dt)))
    IN  (/\ k1.err = "" /\ y2.err = "" /\ k2.err = "" /\ y3.err = ""
         /\ k3.err = "" /\ y4.err = "" /\ k4.err = "") =>
            /\ evals = <<Pt(y, t), Pt(y2.v, half), Pt(y3.v, half),
                         Pt(y4.v, FAdd(t, dt))>>
            /\ ret = VAdd(Ok(y),
                          VDivS(VAdd(VAdd(VAdd(k1, SMul(FromInt(2), k2)),
                                          SMul(FromInt(2), k3)), k4),
                                FromInt(6)))

\* C4. rk4 calls derivs at (y, t), (y + k1/2, t + h/2), (y + k2/2, t + h/2)
\* and (y + k3, t + h), in this order, each k being h times the value, and
\* returns y + (k1 + 2*k2 + 2*k3 + k4)/6; the two definitions agree.
C4_Rk4Step ==
    call.fn \in {"rk4", "rk4_friction"} =>
        /\ C4_Stages(call.y, call.t, call.dt, call.derivs, call.ret, call.evals)
        /\ rk4(call.y, call.t, call.dt, call.derivs)
             = rk4_friction(call.y, call.t, call.dt, call.derivs)

\* a complete rk4 step of the oscillator with friction
C4_Witness ==
    /\ call.fn = "rk4_friction" /\ call.derivs = Fn("SHO_friction")
    /\ Len(call.evals) = 4 /\ call.ret.err = ""
    /\ call.evals[2].y # call.evals[3].y
    /\ ~IsZero(call.dt)

\* a call with a constant derivative and a positive step
C5_Case == call.fn \in StepperSet /\ call.derivs.kind = "const" /\ FGt(call.dt, FZero)

\* the results r of rk4 and e of Euler for the call c agree to within
\* 2^-49 of the larger of |y_i| and |c_i*h|, and e is y + c*h
C5_Close(c, r, e) ==
    /\ r.err = e.err
    /\ Len(r.v) = Len(e.v)
    /\ \A i \in 1..Len(e.v) :
        /\ e.v[i] = FAdd(Stretch(c.y, i), FMul(Stretch(c.derivs.c, i), c.dt))
        /\ Within(r.v[i], e.v[i], -49,
                  FMax(FAbs(Stretch(c.y, i)),
                       FAbs(FMul(Stretch(c.derivs.c, i), c.dt))))

\* C5 (amended). For a constant derivative c and h > 0, Euler returns
\* y + c*h and rk4 returns the same state up to rounding: each component
\* within 2^-49 of the larger of |y_i| and |c_i*h|.
C5_ConstantDerivative ==
    C5_Case =>
        C5_Close(call,
                 rk4(call.y, call.t, call.dt, call.derivs).ret,
                 Euler(call.y, call.t, call.dt, call.derivs).ret)

\* rk4 and Euler differ on a constant derivative
C5_Witness ==
    /\ C5_Case /\ call.fn = "rk4" /\ call.ret.err = ""
    /\ call.ret # Euler(call.y, call.t, call.dt, call.derivs).ret

\* C5 as stated: for a constant derivative and h > 0, rk4 and Euler return
\* the same state.
C5_Original ==
    C5_Case =>
        rk4(call.y, call.t, call.dt, call.derivs).ret
          = Euler(call.y, call.t, call.dt, call.derivs).ret

\* C6 (amended). After ten rk4 steps of free fall from [0, 0] with h = 0.1
\* the state is within 2^-48 of x = -4.9 and v = -9.8 and, the steps having
\* rounded, not equal to them.
C6_FreeFall ==
    ff.i = 10 =>
        /\ Within(ff.y[1], FNeg(Lit(49, 10)), -48, FromInt(1))
        /\ Within(ff.y[2], FNeg(Lit(98, 10)), -48, FromInt(1))
        /\ ff.y[1] # FNeg(Lit(49, 10))
        /\ ff.y[2] # FNeg(Lit(98, 10))

\* the free-fall run has made its tenth step
C6_Witness == ff.i = 10 /\ FLt(ff.y[2], ff.y[1]) /\ FLt(ff.y[1], FZero)

\* C6 as stated: the tenth state is x = -4.9, v = -9.8.
C6_Original == ff.i = 10 => ff.y = <<FNeg(Lit(49, 10)), FNeg(Lit(98, 10))>>

\* rows 0..n of the trajectory a are the same in the next state's b
RowsKept(a, b, n) == \A i \in 0..n : b[i] = a[i]

\* C7. A step of a driver loop leaves times, the array whose row the
\* stepper was given and the rows of the trajectory up to the one the step
\* started from as they were: the next state only goes to row j+1.
C7_InputsKept ==
    [][ /\ cell = "SHO_Euler" =>
            /\ times' = times /\ h' = h
            /\ states' = states
            /\ RowsKept(states_Euler, states_Euler', iter)
        /\ cell = "SHO_rk4" =>
            /\ times' = times /\ h' = h
            /\ RowsKept(states_rk4, states_rk4', iter)
        /\ cell = "SHO_rk4_friction" =>
            /\ times' = times /\ h' = h
            /\ RowsKept(states_rk4_fric, states_rk4_fric', iter)
      ]_vars

\* rk4 has been called on every row of the friction trajectory but the last
C7_Witness ==
    /\ cell = "SHO_rk4_friction" /\ iter = N - 1
    /\ states_rk4_fric[0] = <<y_o_friction, v_o>>
    /\ states_rk4_fric[1] # states_rk4_fric[0]

\* C8. A stepper whose calls of derivs all return vectors as long as y
\* returns a state as long as y, and so is every state of the free-fall run.
C8_LengthKept ==
    /\ (call.fn \in StepperSet /\ SameLength(call)) =>
          call.ret.err = "" /\ Len(call.ret.v) = Len(call.y)
    /\ Len(ff.y) = 2

\* an rk4 step on a state of three components
C8_Witness ==
    /\ call.fn = "rk4" /\ Len(call.y) = 3 /\ SameLength(call)
    /\ Len(call.evals) = 4
    /\ Len(call.ret.v) = 3

\* a call with h <= 0
C9_Case == call.fn \in StepperSet /\ FLe(call.dt, FZero)

\* C9 (amended). No stepper checks h: a call with h <= 0 raises no
\* InvalidStep, calls derivs at (y, t) as any other call does, and returns
\* a state when the lengths agree, which for h = 0 is y itself.
C9_StepUnchecked ==
    C9_Case =>
        /\ call.ret.err \in {"", "ValueError", "IndexError"}
        /\ Len(call.evals) >= 1 /\ call.evals[1] = Pt(call.y, call.t)
        /\ SameLength(call) =>
            /\ call.ret.err = "" /\ Len(call.ret.v) = Len(call.y)
            /\ IsZero(call.dt) => call.ret.v = call.y

\* a call with a negative step that returned a new state
C9_Witness ==
    /\ C9_Case /\ FLt(call.dt, FZero)
    /\ call.ret.err = "" /\ call.ret.v # call.y

\* C9 as stated: a call with h <= 0 fails with InvalidStep at entry.
C9_Original ==
    C9_Case => call.ret.err = "InvalidStep" /\ call.evals = <<>>

\* the first call of derivs returned a vector of another length than y
C10_Case ==
    /\ call.fn \in StepperSet
    /\ Apply(call.derivs, Ok(call.y), call.t).err = ""
    /\ Len(Apply(call.derivs, Ok(call.y), call.t).v) # Len(call.y)

\* C10 (amended). There is no DimensionMismatch.  When derivs returns a
\* vector of another length than y and neither length is 1, the call fails
\* with numpy's ValueError at the first sum of the two, after derivs has
\* returned; when one length is 1 numpy stretches it, and Euler, and rk4
\* with a constant derivative, return a state of the larger length.
C10_Mismatch ==
    C10_Case =>
        IF Len(call.y) # 1 /\ Len(Apply(call.derivs, Ok(call.y), call.t).v) # 1
        THEN /\ call.ret = Raise("ValueError")
             /\ call.evals = <<Pt(call.y, call.t)>>
        ELSE (call.fn \in {"Euler", "Euler_SHO"} \/ call.derivs.kind = "const") =>
                /\ call.ret.err = ""
                /\ Len(call.ret.v)
                     = Max(Len(call.y),
                           Len(Apply(call.derivs, Ok(call.y), call.t).v))

\* Euler returned a state of two components from a derivative of one
C10_Witness ==
    /\ C10_Case /\ call.fn = "Euler" /\ Len(call.y) = 2
    /\ call.ret.err = "" /\ Len(call.ret.v) = 2

\* C10 as stated: a call whose derivative has another length than y fails
\* with DimensionMismatch.
C10_Original == C10_Case => call.ret.err = "DimensionMismatch"

\* rows n+1.. of the trajectory a hold the zeros np.zeros gave them
RowsUnwritten(a, n) == \A r \in (n + 1)..(N - 1) : a[r] = <<FZero, FZero>>

\* C11. A step of the driver loop in which the derivative function raises
\* ends the loop at that step: it writes no row, the rows after the one it
\* read are still unwritten, and no later step writes one.
C11_FailureStops ==
    [][ /\ (cell = "SHO_rk4" /\ error'["SHO_rk4"] # "") =>
            /\ cell' = "idle" /\ iter' = iter
            /\ states_rk4' = states_rk4
            /\ RowsUnwritten(states_rk4', iter)
        /\ error["SHO_rk4"] # "" =>
            /\ cell' = "idle" /\ states_rk4' = states_rk4
      ]_vars

\* the derivative function raised in a step after the first
C11_Witness ==
    /\ error["SHO_rk4"] = "RuntimeError" /\ cell = "idle"
    /\ iter >= 1 /\ iter < N - 1
    /\ states_rk4[iter] # <<FZero, FZero>>
    /\ drv.derivs.kind = "fails_from"

\* the calls a and b were made with the same stepper and arguments
SameCall(a, b) ==
    /\ a.fn = b.fn /\ a.y = b.y /\ a.t = b.t /\ a.dt = b.dt
    /\ a.derivs = b.derivs

Alone_SHO(p, x) ==
    IF ~p.friction
    THEN <<x[2], FSub(FMul(FDiv(FNeg(p.k), p.m), x[1]), p.g)>>
    ELSE IF FGt(x[2], FZero)
    THEN <<x[2], FSub(FMul(FDiv(FNeg(p.k), p.m), x[1]), FMul(p.g, p.mu))>>
    ELSE <<x[2], FAdd(FMul(FDiv(FNeg(p.k), p.m), x[1]), FMul(p.g, p.mu))>>

Alone_Times(c, v) == <<FMul(c, v[1]), FMul(c, v[2])>>

Alone_Over(v, c) == <<FDiv(v[1], c), FDiv(v[2], c)>>

Alone_Plus(a, b) == <<FAdd(a[1], b[1]), FAdd(a[2], b[2])>>

Alone_rk4(p, y, dt) ==
    LET k1 == Alone_Times(dt, Alone_SHO(p, y))
        k2 == Alone_Times(dt, Alone_SHO(p, Alone_Plus(y, Alone_Over(k1, FromInt(2)))))
        k3 == Alone_Times(dt, Alone_SHO(p, Alone_Plus(y, Alone_Over(k2, FromInt(2)))))
        k4 == Alone_Times(dt, Alone_SHO(p, Alone_Plus(y, k3)))
    IN  Alone_Plus(y,
            Alone_Over(Alone_Plus(Alone_Plus(Alone_Plus(k1,
                           Alone_Times(FromInt(2), k2)),
                           Alone_Times(FromInt(2), k3)), k4),
                       FromInt(6)))

Alone_Parameters(c) ==
    IF c = "SHO_rk4"
    THEN [k |-> Lit(35, 10), m |-> Lit(2, 10), g |-> Lit(98, 10), mu |-> FZero,
          friction |-> FALSE, y_o |-> y_o]
    ELSE [k |-> FromInt(42), m |-> Lit(25, 100), g |-> Lit(98, 10),
          mu |-> Lit(15, 100), friction |-> TRUE, y_o |-> y_o_friction]

\* rows 0..n of a are the rows cell c computes when run alone
Alone(c, a, n) ==
    /\ a[0] = <<Alone_Parameters(c).y_o, v_o>>
    /\ \A i \in 0..(n - 1) :
          a[i + 1] = Alone_rk4(Alone_Parameters(c), a[i], FDiv(tau, FromInt(N - 1)))

MixTrajectory(c) == IF c = "SHO_rk4" THEN states_rk4 ELSE states_rk4_fric

\* C13 (amended). A run whose iterations are all taken while its own
\* cell's assignments are the latest made (one run after the other, for
\* example) has the trajectory it has when computed alone, row by row.
C13_AloneWhenOwn ==
    \A c \in MixCells :
        (mix.pos # <<>> /\ mix.pos[c] >= 0 /\ mix.own[c]) =>
            Alone(c, MixTrajectory(c), mix.pos[c])

\* both runs completed one after the other
C13_Witness ==
    /\ mix.pos # <<>>
    /\ \A c \in MixCells : mix.pos[c] = N - 1 /\ mix.own[c]
    /\ mix.last = "SHO_rk4"
    /\ states_rk4[N - 1] # states_rk4_fric[N - 1]

\* C13 as stated: with the iterations taken in turns in any order, each
\* run ends with the trajectory it has when computed alone.
C13_Original ==
    \A c \in MixCells :
        (mix.pos # <<>> /\ mix.pos[c] = N - 1) =>
            Alone(c, MixTrajectory(c), N - 1)

\* evaluations of derivs in one step of cell c's stepper
PerStep(c) == IF c = "SHO_Euler" THEN 1 ELSE 4

\* C14. A driver run that has ended made exactly N-1 stepper calls, each
\* Euler step with 1 evaluation of derivs and each rk4 step with 4, at most
\* N times the per-step count in all; a run under way has made one call for
\* each row it has written.
C14_BoundedWork ==
    /\ \A c \in ran :
          /\ work[c].calls = N - 1
          /\ work[c].evals = (N - 1) * PerStep(c)
          /\ work[c].evals <= N * PerStep(c)
    /\ cell \in Cells =>
          /\ work[cell].calls = iter
          /\ work[cell].evals = iter * PerStep(cell)

\* the midpoint rule of the chapter's text applied to the arguments of call c:
\* k1 = h*f(y, t), k2 = h*f(y + k1/2, t + h/2), y + k2
Midpoint_k1(c) == SMul(c.dt, Apply(c.derivs, Ok(c.y), c.t))

Midpoint_half(c) == VAdd(Ok(c.y), VDivS(Midpoint_k1(c), FromInt(2)))

Midpoint_k2(c) ==
    SMul(c.dt, Apply(c.derivs, Midpoint_half(c),
                     FAdd(c.t, FDiv(c.dt, FromInt(2)))))

\* C15 (as stated). A call rk2(y, t, h, derivs) evaluates derivs exactly twice,
\* at (y, t) and at (y + k1/2, t + h/2), and returns y + k2.
C15_Original ==
    (call.fn = "rk2" /\ Midpoint_k2(call).err = "") =>
        /\ Len(call.evals) = 2
        /\ call.evals[1] = Pt(call.y, call.t)
        /\ call.evals[2] = Pt(Midpoint_half(call).v,
                              FAdd(call.t, FDiv(call.dt, FromInt(2))))
        /\ call.ret = VAdd(Ok(call.y), Midpoint_k2(call))

\* C15 (amended). The chapter defines no rk2: the midpoint rule is text only.
\* A call rk2(y, t, h, derivs) raises NameError without evaluating derivs and
\* leaves y alone, while Euler and rk4 accept the same four arguments and
\* evaluate derivs first at (y, t).
C15_NoMidpointRule ==
    /\ call.fn = "rk2" =>
          /\ call.ret = Raise("NameError")
          /\ call.evals = <<>>
          /\ call.yAfter = call.y
    /\ call.fn \in StepperSet =>
          /\ Len(call.evals) >= 1
          /\ call.evals[1] = Pt(call.y, call.t)

\* rk2 has been called with arguments on which the midpoint rule is defined
C15_Witness ==
    /\ call.fn = "rk2" /\ FGt(call.dt, FZero)
    /\ Midpoint_k2(call).err = ""
    /\ call.ret.err = "NameError"

\* the n sample times np.arange(0,tau+step,step) are i*step for i in 0..n-1,
\* strictly increasing from 0 to tau
SampleTimes(n, step) ==
    /\ Arange_length(FZero, FAdd(tau, step), step) = n
    /\ \A i \in 0..(n - 1) : Arange_value(FZero, step, i) = FMul(FromInt(i), step)
    /\ \A i \in 0..(n - 2) : FLt(FMul(FromInt(i), step), FMul(FromInt(i + 1), step))
    /\ Arange_value(FZero, step, 0) = FZero
    /\ Arange_value(FZero, step, n - 1) = tau

FrameStep(c, a, a2) ==
    (cell = c /\ cell' \in {c, "idle"}) =>
        /\ DOMAIN a2 = DOMAIN a
        /\ iter' \in {iter, iter + 1}
        /\ a2 # a => iter' = iter + 1
        /\ \A r \in DOMAIN a : r # iter + 1 => a2[r] = a[r]

\* C17. During a driver run, step j writes only row j+1 of the trajectory:
\* rows 0..j keep what they hold, rows after j+1 keep the zeros of np.zeros,
\* and the index of the written row grows by one with each step.
C17_Frame ==
    [][ /\ FrameStep("SHO_Euler", states_Euler, states_Euler')
        /\ FrameStep("SHO_rk4", states_rk4, states_rk4')
        /\ FrameStep("SHO_rk4_friction", states_rk4_fric, states_rk4_fric')
        /\ (cell = "SHO_rk4" /\ cell' = "SHO_rk4") =>
              RowsUnwritten(states_rk4', iter')
        /\ (cell = "SHO_rk4_friction" /\ cell' = "SHO_rk4_friction") =>
              RowsUnwritten(states_rk4_fric', iter')
      ]_vars

\* the rk4 run has written rows 1 and 2 after the seeded row 0
C17_Witness ==
    /\ cell = "SHO_rk4" /\ iter = 2
    /\ states_rk4[0] = <<y_o, v_o>>
    /\ states_rk4[1] # <<FZero, FZero>> /\ states_rk4[2] # states_rk4[1]
    /\ RowsUnwritten(states_rk4, 2)

\* C18. A call bisection(f, a, b, N) with f(a)*f(b) >= 0 has ended at once:
\* it printed "Bisection method fails." and nothing else, returned None, and
\* called f at a and at b only, at no midpoint.
C18_NoBracket ==
    (bis.pc # "none" /\ GeZero(Times(Value(bis.f, bis.a), Value(bis.f, bis.b)))) =>
        /\ bis.pc = "done"
        /\ bis.out = <<"Bisection method fails.">>
        /\ bis.ret = ReturnNone
        /\ bis.evals = <<bis.a, bis.b>>
        /\ bis.n = 0 /\ bis.a_n = bis.a /\ bis.b_n = bis.b

\* bisection has been called with a root at the endpoint a and N > 0
C18_Witness ==
    /\ bis.pc = "done" /\ bis.N > 0
    /\ EqZero(Value(bis.f, bis.a))
    /\ ~EqZero(Value(bis.f, bis.b))
    /\ bis.ret = ReturnNone

\* C19. When f is exactly zero at a midpoint c, bisection stops there and
\* returns c: the call has ended and its value is the last midpoint at which
\* f was called.
C19_ExactRoot ==
    (bis.pc = "done" /\ bis.out = <<"Found exact solution.">>) =>
        /\ bis.ret.err = "" /\ ~bis.ret.none
        /\ bis.ret.v = Midpoint(bis.a_n, bis.b_n)
        /\ EqZero(Value(bis.f, bis.ret.v))

\* n is a prime number
IsPrime(n) == n >= 2 /\ \A d \in 2..(n - 1) : n % d # 0

\* C20. The prime check ends having printed "is a prime number" if and only
\* if Number is prime, and otherwise having printed the smallest divisor d of
\* Number with 2 <= d < Number; this for every integer, 0, 1 and the
\* negative numbers included.
C20_PrimeCheck ==
    prime.pc = "done" =>
        /\ prime.out.kind = "prime" <=> IsPrime(prime.Number)
        /\ ~IsPrime(prime.Number) =>
              /\ prime.out.kind = "divisible"
              /\ 2 <= prime.out.d /\ prime.out.d < prime.Number
              /\ prime.Number % prime.out.d = 0
              /\ \A d \in 2..(prime.out.d - 1) : prime.Number % d # 0

(***************************************************************************)
(* Properties of the programs of the other chapters.                       *)
(***************************************************************************)
RECURSIVE Product(_)
\* n! by its recurrence: 0! = 1 and n! = n*(n-1)!
Product(n) == IF n = 0 THEN 1 ELSE n * Product(n - 1)

\* C21. factorial(n) returns n! for every n >= 0, and every row the table
\* prints for j = 0..9 holds j and j!.
C21_Factorial ==
    /\ (fact.pc = "done" /\ fact.from = "direct" /\ fact.n >= 0) =>
          fact.ret = Product(fact.n)
    /\ fact.pc # "none" =>
          \A r \in 1..Len(fact.table) : fact.table[r] = <<r - 1, Product(r - 1)>>
    /\ (fact.pc = "done" /\ fact.from = "table") => Len(fact.table) = TableRows

\* the table has been printed up to 9! = 362880
C21_Witness ==
    /\ fact.pc = "done" /\ fact.from = "table"
    /\ fact.table[TableRows] = <<9, 362880>>
    /\ fact.table[1] = <<0, 1>>

\* g(x) = x^3 - 9x^2 + 8x - 12
Cubic(x) ==
    FSub(FAdd(FSub(FMul(FMul(x, x), x), FMul(FromInt(9), FMul(x, x))),
              FMul(FromInt(8), x)),
         FromInt(12))

RuleWeight(i, n, width) == IF i \in {1, n} THEN FDiv(width, FromInt(2)) ELSE width

RECURSIVE Weighted(_, _, _)
\* sum for i = 1..n, in this order, of f(pts[i])*wts[i]
Weighted(pts, wts, n) ==
    IF n = 0 THEN FZero
    ELSE FAdd(Weighted(pts, wts, n - 1), FMul(FMul(pts[n], pts[n]), wts[n]))

\* the points and weights of a finished trapezoid run t: N points
\* x_i = a + (i-1)*h with h = (b-a)/(N-1), the ends weighted h/2 and the
\* others h, and the total their weighted sum
TrapezoidRule(t) ==
    /\ t.h = FDiv(FSub(QuadB, QuadA), FromInt(t.N - 1))
    /\ Len(t.pts) = t.N /\ Len(t.wts) = t.N
    /\ \A i \in 1..t.N :
        /\ t.pts[i] = FAdd(QuadA, FMul(FromInt(i - 1), t.h))
        /\ t.wts[i] = RuleWeight(i, t.N, t.h)
    /\ t.pts[1] = QuadA
    /\ t.tot_sum = Weighted(t.pts, t.wts, t.N)

\* C23 (as stated). A finished trapezoid run has used the points and weights
\* of the rule, with x_N = b and the weights summing to b - a.
C23_Original ==
    (trap.pc = "done" /\ trap.err = "") =>
        /\ TrapezoidRule(trap)
        /\ trap.pts[trap.N] = QuadB
        /\ Sum(trap.wts, 1, FZero) = FSub(QuadB, QuadA)

\* C23 (amended). A finished trapezoid run has used the points and weights
\* of the rule; x_N and the sum of the weights are b and b - a up to the
\* rounding of h (x_N within one unit in the last place of b), and exactly so
\* for the cell's own N = 4, where the total is 9.5.
C23_Trapezoid ==
    (trap.pc = "done" /\ trap.err = "") =>
        /\ TrapezoidRule(trap)
        /\ Within(trap.pts[trap.N], QuadB, -51, FromInt(1))
        /\ Within(Sum(trap.wts, 1, FZero), FSub(QuadB, QuadA), -51, FromInt(trap.N))
        /\ trap.N = 4 =>
              /\ trap.pts[4] = QuadB
              /\ Sum(trap.wts, 1, FZero) = FSub(QuadB, QuadA)
              /\ trap.tot_sum = Lit(95, 10)

\* the run of 48 points has ended with x_N = 3.0000000000000004
C23_Witness ==
    /\ trap.pc = "done" /\ trap.N = 48
    /\ trap.pts[48] # QuadB
    /\ FGt(trap.tot_sum, FromInt(9))

\* the acceleration of the friction spring at the state x, by the sign of the
\* velocity x[1] of the code (x[2] here)
FrictionAcceleration(x) ==
    IF FGt(x[2], FZero)
    THEN FSub(FMul(FDiv(FNeg(k), m), x[1]), FMul(g, mu))
    ELSE FAdd(FMul(FDiv(FNeg(k), m), x[1]), FMul(g, mu))

\* C24. At every state x = [y, v] at which a stepper evaluates the friction
\* SHO, it returns [v, -k/m*y - g*mu] when v > 0 and [v, -k/m*y + g*mu] when
\* v <= 0, a mass at rest included: yp[0] is the velocity x[1].
C24_FrictionSign ==
    (call.fn \in StepperSet /\ call.derivs = Fn("SHO_friction")) =>
        \A p \in 1..Len(call.evals) :
            Len(call.evals[p].y) = 2 =>
                /\ Apply(call.derivs, Ok(call.evals[p].y), call.evals[p].t) =
                      Ok(<<call.evals[p].y[2], FrictionAcceleration(call.evals[p].y)>>)
                /\ FMul(g, mu) # FZero

\* an rk4 step from rest has evaluated the friction SHO at rest and at a
\* positive velocity
C24_Witness ==
    /\ call.fn = "rk4_friction" /\ call.derivs = Fn("SHO_friction")
    /\ Len(call.evals) = 4
    /\ call.evals[1].y[2] = FZero
    /\ \E p \in 2..4 : FGt(call.evals[p].y[2], FZero)
    /\ \E p \in 2..4 : FLt(call.evals[p].y[2], FZero)

\* x lies between lo and hi, whichever way round they are
Between(lo, hi, x) ==
    \/ FLe(lo, x) /\ FLe(x, hi)
    \/ FLe(hi, x) /\ FLe(x, lo)

\* the product f(a_n)*f(b_n) of the bracket of call b is negative
Bracketed(b) == LtZero(Times(Value(b.f, b.a_n), Value(b.f, b.b_n)))

\* (b - a)/2^n
WidthAfter(b, n) == FMul(FSub(b.b, b.a), Pow2(-n))

\* C25 (as stated). While bisection iterates, f(a_n)*f(b_n) < 0, the bracket
\* lies inside [a, b] and its width after n iterations is (b - a)/2^n.
C25_Original ==
    bis.pc = "loop" =>
        /\ Bracketed(bis)
        /\ Between(bis.a, bis.b, bis.a_n) /\ Between(bis.a, bis.b, bis.b_n)
        /\ FSub(bis.b_n, bis.a_n) = WidthAfter(bis, bis.n)

\* C25 (amended). After the entry check f(a)*f(b) is not >= 0 (negative, or
\* nan when f is nan at an end point); an iteration that does not return sets
\* exactly one end point to the midpoint c = (a_n + b_n)/2 as the floating
\* point computes it, after which f(a_n)*f(b_n) < 0 and the bracket lies
\* between a and b; the width halves when c is exactly half way and never
\* grows, so it is (b - a)/2^n only as long as no midpoint was rounded.
C25_Bracket ==
    [][ /\ (bis.pc = "none" /\ bis'.pc = "loop") =>
              /\ ~GeZero(Times(Value(bis'.f, bis'.a), Value(bis'.f, bis'.b)))
              /\ bis'.a_n = bis'.a /\ bis'.b_n = bis'.b /\ bis'.n = 0
        /\ (bis.pc = "loop" /\ bis'.pc = "loop") =>
              /\ bis'.n = bis.n + 1
              /\ \/ bis'.a_n = bis.a_n /\ bis'.b_n = Midpoint(bis.a_n, bis.b_n)
                 \/ bis'.b_n = bis.b_n /\ bis'.a_n = Midpoint(bis.a_n, bis.b_n)
              /\ Bracketed(bis')
              /\ Between(bis.a, bis.b, bis'.a_n) /\ Between(bis.a, bis.b, bis'.b_n)
              /\ FLe(FAbs(FSub(bis'.b_n, bis'.a_n)), FAbs(FSub(bis.b_n, bis.a_n)))
              /\ (FSub(Midpoint(bis.a_n, bis.b_n), bis.a_n) =
                    FSub(bis.b_n, Midpoint(bis.a_n, bis.b_n))) =>
                    FSub(bis'.b_n, bis'.a_n) =
                        FDiv(FSub(bis.b_n, bis.a_n), FromInt(2))
      ]_vars

\* two iterations on [1, 1 + 2^-51] have left the adjacent floats 1 and
\* 1 + 2^-52: the second midpoint was rounded onto a_n
C25_Witness ==
    /\ bis.pc = "loop" /\ bis.n = 2
    /\ bis.a_n = FromInt(1) /\ bis.b_n = FAdd(FromInt(1), Pow2(-52))
    /\ Bracketed(bis)
    /\ FSub(bis.b_n, bis.a_n) # WidthAfter(bis, 2)

\* x lies strictly between lo and hi, whichever way round they are
StrictlyBetween(lo, hi, x) ==
    \/ FLt(lo, x) /\ FLt(x, hi)
    \/ FLt(hi, x) /\ FLt(x, lo)

\* the call b has run all its N iterations and returned from its last line
RanToTheEnd(b) ==
    b.pc = "done" /\ b.n = b.N /\ b.ret.err = "" /\ ~b.ret.none

\* C26 (as stated). A call that has run all N iterations returns the midpoint
\* of its final bracket, strictly between a and b.
C26_Original ==
    RanToTheEnd(bis) =>
        /\ bis.ret.v = Midpoint(bis.a_n, bis.b_n)
        /\ StrictlyBetween(bis.a, bis.b, bis.ret.v)

\* C26 (amended). A call of bisection ends after at most N iterations: n
\* never exceeds N, a call in its loop can always take a step, and every
\* step either ends the call or adds one to n.  When all N iterations have
\* run it returns the midpoint of the final bracket as floating point
\* computes it, between a and b with the end points included; for N = 0 it
\* returns (a + b)/2 having called f at a and b only.
C26_Terminates ==
    /\ [](bis.pc # "none" => bis.n <= bis.N /\ Len(bis.evals) <= 2 + 3 * bis.N)
    /\ [](RanToTheEnd(bis) =>
            /\ bis.ret.v = Midpoint(bis.a_n, bis.b_n)
            /\ Between(bis.a, bis.b, bis.ret.v)
            /\ bis.N = 0 => bis.ret.v = Midpoint(bis.a, bis.b)
                            /\ bis.evals = <<bis.a, bis.b>>)
    /\ [][bis.pc = "loop" =>
            \/ bis'.pc = "done" /\ bis'.n = bis.n
            \/ bis'.pc = "loop" /\ bis'.n = bis.n + 1]_vars

\* two iterations on [1, 1 + 2^-51] have run and the call has returned a
C26_Witness ==
    /\ RanToTheEnd(bis) /\ bis.N = 2
    /\ bis.a = FromInt(1) /\ bis.b = FAdd(FromInt(1), Pow2(-51))
    /\ bis.ret.v = bis.a

\* the call b ended in the last else of the loop body
FailedInLoop(b) ==
    b.pc = "done" /\ b.out = <<"Bisection method fails.">> /\ Len(b.evals) > 2

\* f is one of the functions whose values are numbers everywhere (no nan)
ExactValued(f) == f.kind \in {"minus", "square_minus"}

\* C27. For a function whose values are numbers, the last else of the loop
\* body is never reached: a call that ended inside the loop found an exact
\* zero, and at every midpoint c of a call that goes on, f(a_n)*f(c) < 0 or
\* f(b_n)*f(c) < 0 or f(c) = 0.
C27_ElseUnreached ==
    [][ (bis.pc = "loop" /\ bis' # bis /\ ExactValued(bis.f)) =>
            /\ ~FailedInLoop(bis')
            /\ \/ LtZero(Times(Value(bis.f, bis.a_n),
                               Value(bis.f, Midpoint(bis.a_n, bis.b_n))))
               \/ LtZero(Times(Value(bis.f, bis.b_n),
                               Value(bis.f, Midpoint(bis.a_n, bis.b_n))))
               \/ EqZero(Value(bis.f, Midpoint(bis.a_n, bis.b_n)))
               \/ bis.n = bis.N
      ]_vars

\* three iterations of a call on x*x - 2 have run, none into the last else
C27_Witness ==
    /\ bis.pc = "loop" /\ bis.n = 3 /\ bis.f = SquareMinus(FromInt(2))
    /\ Bracketed(bis)

\* the value of the line through points i and i+1 of the table of call l at
\* x: g(x_i) + (x - x_i)/(x_{i+1} - x_i)*(g(x_{i+1}) - g(x_i))
OnSegment(l, i) ==
    FAdd(l.g_n[i], FMul(FDiv(FSub(l.x, l.x_n[i]), FSub(l.x_n[i + 1], l.x_n[i])),
                        FSub(l.g_n[i + 1], l.g_n[i])))

\* C28. For x_n[0] <= x <= x_n[-1], linear_interp returns the value at x of
\* the line of a segment [x_i, x_{i+1}] that contains x, and g_n[i] at
\* every table point, the last included, without an index error.
C28_LinearInterp ==
    (lin.pc = "done" /\ Len(lin.x_n) >= 2
        /\ FLe(lin.x_n[1], lin.x) /\ FLe(lin.x, lin.x_n[Len(lin.x_n)])) =>
        /\ lin.ret.err = "" /\ ~lin.ret.none
        /\ \E i \in 1..(Len(lin.x_n) - 1) :
              /\ FLe(lin.x_n[i], lin.x) /\ FLe(lin.x, lin.x_n[i + 1])
              /\ lin.ret.v = OnSegment(lin, i)
        /\ \A i \in 1..Len(lin.x_n) : lin.x = lin.x_n[i] => lin.ret.v = lin.g_n[i]

RECURSIVE SimpsonSum(_, _, _)
\* sum over the first n intervals of s, in order, of
\* (h/6)*(f(x_left) + 4*f(x_mid) + f(x_right))
SimpsonSum(s, width, n) ==
    IF n = 0 THEN FZero
    ELSE FAdd(SimpsonSum(s, width, n - 1),
              FMul(FDiv(width, FromInt(6)),
                   FAdd(FAdd(FMul(s[n][1], s[n][1]),
                             FMul(FromInt(4), FMul(s[n][2], s[n][2]))),
                        FMul(s[n][3], s[n][3]))))

\* the intervals of a finished Simpson run s: N-1 of them, interval i from
\* a + (i-1)h to a + i*h with its midpoint h/2 after its left end, each
\* starting where the one before ends, the first at a; the total is their sum
SimpsonRule(s) ==
    /\ s.h = FDiv(FSub(QuadB, QuadA), FromInt(s.N - 1))
    /\ Len(s.pts) = s.N - 1
    /\ \A i \in 1..(s.N - 1) :
        /\ s.pts[i][1] = FAdd(QuadA, FMul(FromInt(i - 1), s.h))
        /\ s.pts[i][3] = FAdd(QuadA, FMul(FromInt(i), s.h))
        /\ s.pts[i][2] = FAdd(s.pts[i][1], FDiv(s.h, FromInt(2)))
        /\ FLt(s.pts[i][1], s.pts[i][2]) /\ FLt(s.pts[i][2], s.pts[i][3])
        /\ i > 1 => s.pts[i][1] = s.pts[i - 1][3]
    /\ s.pts[1][1] = QuadA
    /\ s.tot_sum = SimpsonSum(s.pts, s.h, s.N - 1)

\* C29 (as stated). A finished Simpson run has summed the rule over N-1
\* intervals that tile [a, b], and its total for x*x on [0, 3] is 9.
C29_Original ==
    (simp.pc = "done" /\ simp.err = "") =>
        /\ SimpsonRule(simp)
        /\ simp.pts[simp.N - 1][3] = QuadB
        /\ simp.tot_sum = FromInt(9)

\* C29 (amended). A finished Simpson run has summed the rule over N-1
\* intervals, each starting where the one before ends, from a to
\* a + (N-1)h, which is b up to rounding; its total for x*x on [0, 3] is 9
\* up to rounding (within N*2^-49) for odd and even N, and exactly 9 for
\* N = 2..5, the cell's own N = 4 included.
C29_Simpson ==
    (simp.pc = "done" /\ simp.err = "") =>
        /\ SimpsonRule(simp)
        /\ Within(simp.pts[simp.N - 1][3], QuadB, -51, FromInt(1))
        /\ Within(simp.tot_sum, FromInt(9), -49, FromInt(simp.N))
        /\ simp.N \in 2..5 =>
              /\ simp.tot_sum = FromInt(9)
              /\ simp.pts[simp.N - 1][3] = QuadB

\* the run of 6 points has ended with the total 8.999999999999998
C29_Witness ==
    /\ simp.pc = "done" /\ simp.N = 6
    /\ simp.tot_sum = FSub(FromInt(9), Pow2(-49))

\* both parameters are numbers, neither below its lower limit nor above its
\* upper limit
InsideLimits(a_m) ==
    /\ ~IsNaN(a_m[1]) /\ ~IsNaN(a_m[2])
    /\ ~FLt(a_m[1], FromInt(25000)) /\ ~FGt(a_m[1], FromInt(50000))
    /\ ~FLt(a_m[2], FromInt(75)) /\ ~FGt(a_m[2], FromInt(300))

\* C30. The prior of a call of lnprob is 0 exactly when 25000 <= N_o <= 50000
\* and 75 <= lam <= 300 and minus infinity otherwise; a call whose prior is
\* minus infinity returns minus infinity and never evaluates log_prob, every
\* other call evaluates it once and returns the prior plus its value.
C30_Prior ==
    post.pc # "none" =>
        /\ InsideLimits(post.a_m) => post.lp = FZero
        /\ ~InsideLimits(post.a_m) => post.lp = MinusInfinity
        /\ post.pc = "done" /\ post.lp = MinusInfinity =>
              post.ret = MinusInfinity /\ post.evaluated = 0
        /\ post.pc = "done" /\ post.lp # MinusInfinity =>
              /\ post.evaluated = 1
              /\ post.ret = (IF post.ll \in {NaN, MinusInfinity} THEN post.ll
                             ELSE FAdd(post.lp, post.ll))

\* a call on the limits N_o = 25000, lam = 300 has returned its likelihood
C30_Witness ==
    /\ post.pc = "done" /\ post.a_m = <<FromInt(25000), FromInt(300)>>
    /\ post.evaluated = 1 /\ post.ret = FromInt(-12)
=============================================================================
